---- MODULE Spec2Model ----
(***************************************************************************)
(* Ethika-Chat: ingestion of markdown resources into the vector            *)
(* collection, filtered nearest-neighbour search, curriculum assembly and  *)
(* the optional LLM augmentation with its deterministic fallback.          *)
(*                                                                         *)
(* Strings that the code inspects character by character (filter tokens,   *)
(* the JSON text of a list attribute) are sequences of one-letter strings. *)
(* Times are kept exact: a schedule value is the numerator of a fraction   *)
(* whose denominator is max(len(resources), 1).                            *)
(***************************************************************************)
EXTENDS Integers, Sequences, FiniteSets, TLC

VARIABLES
    dir,         \* the resources directory: its markdown files in glob order
    collection,  \* the ChromaDB collection: records in insertion order
    lastBatch,   \* the documents the latest run of setup_rag parsed
    ret,         \* what the latest operation was called with and produced
    call,        \* the generate_from_prompt call in progress: its position
                 \* and local variables
    server       \* the API server process: its module globals and the
                 \* threads serving requests

vars == <<dir, collection, lastBatch, ret, call, server>>

-----------------------------------------------------------------------------
(* Bounds *)

MaxDirFiles == 2     \* files the directory holds at most
MaxRecords == 4      \* records the collection holds at most
MaxLimit == 2        \* largest limit / limit_per_topic a caller passes

-----------------------------------------------------------------------------
(* Generic helpers *)

Range(s) == {s[i] : i \in 1..Len(s)}

Min(a, b) == IF a <= b THEN a ELSE b

Max(a, b) == IF a >= b THEN a ELSE b

Abs(a) == IF a < 0 THEN 0 - a ELSE a

RECURSIVE Concat(_)
Concat(ss) == IF ss = <<>> THEN <<>> ELSE Head(ss) \o Concat(Tail(ss))

Take(s, n) == SubSeq(s, 1, Min(n, Len(s)))

\* Python's s[:n]: a negative n counts from the end.
Slice(s, n) == IF n >= 0 THEN Take(s, n) ELSE Take(s, Max(Len(s) + n, 0))

-----------------------------------------------------------------------------
(* Characters and tokens *)

UpperCase == <<"A", "B", "C", "D", "E", "F", "G", "H", "I", "J", "K", "L", "M",
               "N", "O", "P", "Q", "R", "S", "T", "U", "V", "W", "X", "Y", "Z">>

LowerCase == <<"a", "b", "c", "d", "e", "f", "g", "h", "i", "j", "k", "l", "m",
               "n", "o", "p", "q", "r", "s", "t", "u", "v", "w", "x", "y", "z">>

UpperCaseLetters == {UpperCase[i] : i \in 1..26}

LowerOf ==
    [c \in UpperCaseLetters |->
        LowerCase[CHOOSE i \in 1..26 : UpperCase[i] = c]]

\* str.lower() of one character
LowerChar(c) == IF c \in UpperCaseLetters THEN LowerOf[c] ELSE c

Lower(t) == [i \in 1..Len(t) |-> LowerChar(t[i])]

\* institution tokens
Mit == <<"m", "i", "t">>
MitRaw == <<"M", "I", "T">>
Su == <<"s", "u">>
\* audience tokens
El == <<"e", "l">>
ElRaw == <<"E", "l">>
Ms == <<"m", "s">>
\* tag tokens (also the topics of a curriculum)
Eth == <<"e", "t", "h">>
Ml == <<"m", "l">>
Bias == <<"b", "i", "a", "s">>
\* type tokens
Act == <<"a", "c", "t">>
Vid == <<"v", "i", "d">>

-----------------------------------------------------------------------------
(* Source files *)

Dash == [k |-> "dash", v |-> "---"]
Yaml(kind) == [k |-> "yaml", v |-> kind]
Text(t) == [k |-> "text", v |-> t]

\* a front-matter value: a YAML list, a YAML scalar, or an explicit null
ListVal(items) == [shape |-> "list", items |-> items]
ScalarVal(item) == [shape |-> "scalar", items |-> <<item>>]
NoVal == [shape |-> "list", items |-> <<>>]

FilterKeys == {"institution", "tags", "target_audience", "type"}

NoAttrs == [institution |-> NoVal, tags |-> NoVal, target_audience |-> NoVal,
            type |-> NoVal]

\* a.md, directly in the directory: well-formed, values in mixed case
FileA == [path |-> "a.md", name |-> "a.md", readable |-> TRUE,
          lines |-> <<Dash, Yaml("map"), Dash, Text("ta")>>,
          attrs |-> [institution |-> ScalarVal(MitRaw),
                     tags |-> ListVal(<<Eth>>),
                     target_audience |-> ListVal(<<ElRaw>>),
                     type |-> ListVal(<<Act>>)],
          emb |-> 1]

\* b.md, directly in the directory: well-formed, two tags
FileB == [path |-> "b.md", name |-> "b.md", readable |-> TRUE,
          lines |-> <<Dash, Yaml("map"), Dash, Text("tb")>>,
          attrs |-> [institution |-> ListVal(<<Su>>),
                     tags |-> ListVal(<<Ml, Eth>>),
                     target_audience |-> ListVal(<<Ms>>),
                     type |-> ListVal(<<Vid>>)],
          emb |-> 3]

\* sub/c.md: well-formed, no institution
FileC == [path |-> "sub/c.md", name |-> "c.md", readable |-> TRUE,
          lines |-> <<Dash, Yaml("map"), Dash, Text("tc")>>,
          attrs |-> [institution |-> NoVal,
                     tags |-> ListVal(<<Bias>>),
                     target_audience |-> ListVal(<<El>>),
                     type |-> ListVal(<<Act>>)],
          emb |-> 2]

\* sub/a.md: a second file named a.md, the front matter is invalid YAML
FileD == [path |-> "sub/a.md", name |-> "a.md", readable |-> TRUE,
          lines |-> <<Dash, Yaml("bad"), Dash, Text("td")>>,
          attrs |-> NoAttrs,
          emb |-> 4]

\* e.md: the front matter is valid YAML but a plain string, not a mapping
FileE == [path |-> "e.md", name |-> "e.md", readable |-> TRUE,
          lines |-> <<Dash, Yaml("scalar"), Dash, Text("te")>>,
          attrs |-> NoAttrs,
          emb |-> 0]

\* f.md: the front matter is opened but never closed
FileF == [path |-> "f.md", name |-> "f.md", readable |-> TRUE,
          lines |-> <<Dash, Yaml("map"), Text("tf")>>,
          attrs |-> NoAttrs,
          emb |-> 2]

\* h.md: cannot be read (not UTF-8)
FileH == [path |-> "h.md", name |-> "h.md", readable |-> FALSE,
          lines |-> <<Text("th")>>,
          attrs |-> NoAttrs,
          emb |-> 0]

\* the files that come and go in the directory of the ingestion runs
Files == {FileA, FileC, FileD, FileE, FileF, FileH}

TopLevel(f) == f.path = f.name

-----------------------------------------------------------------------------
(* MarkdownParser *)

\* yaml_pattern: an opening --- line, the shortest run of at least one line,
\* a closing --- line, the rest.  0 when the pattern does not match, else
\* the position of the closing line.
YamlPatternMatch(lines) ==
    IF Len(lines) >= 3 /\ lines[1].k = "dash"
          /\ \E j \in 3..Len(lines) : lines[j].k = "dash"
    THEN CHOOSE j \in 3..Len(lines) :
            /\ lines[j].k = "dash"
            /\ \A i \in 3..(j - 1) : lines[i].k # "dash"
    ELSE 0

EmptyMetadata == [kind |-> "dict", keys |-> {}, attrs |-> NoAttrs]

\* yaml.safe_load of the front-matter block
SafeLoad(block, attrs) ==
    CASE block[1].v = "map" ->
            [status |-> "ok",
             metadata |-> [kind |-> "dict", keys |-> FilterKeys,
                           attrs |-> attrs]]
      [] block[1].v = "null" -> [status |-> "ok", metadata |-> EmptyMetadata]
      [] block[1].v = "scalar" ->
            [status |-> "ok",
             metadata |-> [kind |-> "str", keys |-> {}, attrs |-> NoAttrs]]
      [] OTHER -> [status |-> "YAMLError", metadata |-> EmptyMetadata]

Document(metadata, content, f) ==
    [metadata |-> metadata, content |-> content, file_path |-> f.path,
     file_name |-> f.name, emb |-> f.emb]

parse_file(f) ==
    IF ~f.readable
    THEN Document(EmptyMetadata, <<>>, f)
    ELSE LET content == f.lines
             j == YamlPatternMatch(content)
         IN  IF j # 0
             THEN LET loaded == SafeLoad(SubSeq(content, 2, j - 1), f.attrs)
                  IN  Document(IF loaded.status = "ok" THEN loaded.metadata
                                                       ELSE EmptyMetadata,
                               SubSeq(content, j + 1, Len(content)), f)
             ELSE Document(EmptyMetadata, content, f)

\* truth value of a parsed metadata object and of a content string
Truthy(metadata) == metadata.kind = "str" \/ metadata.keys # {}

RECURSIVE ParseAll(_)
ParseAll(md_files) ==
    IF md_files = <<>> THEN <<>>
    ELSE LET doc == parse_file(Head(md_files))
         IN  (IF doc.content # <<>> \/ Truthy(doc.metadata) THEN <<doc>>
                                                             ELSE <<>>)
             \o ParseAll(Tail(md_files))

\* directory.glob('*.md'): the files directly in the directory
GlobTop(d) == SelectSeq(d, TopLevel)

\* directory.glob('**/*.md'): every file at any depth, the directory's own too
GlobRecursive(d) == d

parse_directory(d) == ParseAll(GlobTop(d) \o GlobRecursive(d))

\* a normalisation that keeps the letter case of the source
_normalize_list_raw(value) ==
    [i \in 1..Len(value.items) |-> value.items[i]]

_normalize_list(value) ==
    [i \in 1..Len(value.items) |-> Lower(value.items[i])]

\* "raise" stands for the AttributeError of metadata.get on a non-mapping
extract_filters(doc) ==
    IF doc.metadata.kind # "dict"
    THEN [status |-> "raise", filters |-> NoAttrs]
    ELSE [status |-> "ok",
          filters |-> [key \in FilterKeys |->
                          _normalize_list(doc.metadata.attrs[key])]]

\* the attributes create_searchable_text writes into the text
SearchableKeys == {"tags", "target_audience", "type"}

\* create_searchable_text: the attribute values as the front matter spells
\* them, then the body
create_searchable_text(doc) ==
    [parts |-> [key \in SearchableKeys \cap doc.metadata.keys |->
                   doc.metadata.attrs[key].items],
     content |-> doc.content]

-----------------------------------------------------------------------------
(* RAGSystem: the collection *)

RECURSIVE JoinQuoted(_)
JoinQuoted(tokens) ==
    IF tokens = <<>> THEN <<>>
    ELSE <<"\"">> \o Head(tokens) \o <<"\"">>
         \o (IF Len(tokens) > 1 THEN <<",", " ">> ELSE <<>>)
         \o JoinQuoted(Tail(tokens))

\* json.dumps of a list of strings, as the text stored in the metadata
json_dumps(tokens) == <<"[">> \o JoinQuoted(tokens) \o <<"]">>

\* an id numbered from the size of the collection instead of from 0
DocIdFromCount(i, doc) == <<"doc", Len(collection) + i, doc.file_name>>

\* the id add_documents gives the i-th document (i from 0) of a batch:
\* f"doc_{i}_{file_name}"
DocId(i, doc) == <<"doc", i, doc.file_name>>

\* the record add_documents builds for the i-th document of a batch
Record(i, doc, filters) ==
    [id |-> DocId(i, doc),
     metadata |-> [file_path |-> doc.file_path,
                   file_name |-> doc.file_name,
                   institution |-> json_dumps(filters.institution),
                   tags |-> json_dumps(filters.tags),
                   target_audience |-> json_dumps(filters.target_audience),
                   type |-> json_dumps(filters.type)],
     document |-> create_searchable_text(doc),
     embedding |-> doc.emb]

Ids(records) == {records[i].id : i \in 1..Len(records)}

\* collection.add: records whose id the collection already holds are left
\* as they are, the others are appended in batch order
RECURSIVE CollectionAdd(_, _)
CollectionAdd(coll, records) ==
    IF records = <<>> THEN coll
    ELSE CollectionAdd(IF Head(records).id \in Ids(coll)
                       THEN coll
                       ELSE Append(coll, Head(records)),
                       Tail(records))

\* add_documents: the new collection, or "raise" with the collection
\* untouched when building a record fails
add_documents(coll, documents) ==
    IF documents = <<>>
    THEN [status |-> "ok", collection |-> coll]
    ELSE IF \E i \in 1..Len(documents) :
                extract_filters(documents[i]).status = "raise"
         THEN [status |-> "raise", collection |-> coll]
         ELSE [status |-> "ok",
               collection |->
                   CollectionAdd(coll,
                       [i \in 1..Len(documents) |->
                           Record(i - 1, documents[i],
                                  extract_filters(documents[i]).filters)])]

\* get_all_resources
get_all_resources(coll) ==
    [i \in 1..Len(coll) |->
        [id |-> coll[i].id, metadata |-> coll[i].metadata,
         document |-> coll[i].document]]

-----------------------------------------------------------------------------
(* RAGSystem.search *)

\* s contains t as a contiguous run of characters ("$contains" on the JSON
\* text of a list attribute)
Contains(s, t) ==
    \E k \in 0..(Len(s) - Len(t)) : SubSeq(s, k + 1, k + Len(t)) = t

NoWhere == [institution |-> <<>>, target_audience |-> <<>>, tags |-> <<>>,
            type |-> <<>>, or |-> <<>>]

\* the {"$contains": token.lower()} tests of one filter list, as $or entries
OrEntries(field, tokens) ==
    [i \in 1..Len(tokens) |-> [field |-> field, token |-> Lower(tokens[i])]]

\* one "if <list>:" block of search: a single value becomes the field's own
\* test, several values go to the where clause's one "$or" list
WithListFilter(where, field, tokens) ==
    IF tokens = <<>> THEN where
    ELSE IF Len(tokens) = 1
         THEN [where EXCEPT ![field] = <<Lower(tokens[1])>>]
         ELSE [where EXCEPT !.or = where.or \o OrEntries(field, tokens)]

\* the where clause search builds; institution <<>> is None or ""
BuildWhere(institution, target_audience, tags, resource_type) ==
    LET w1 == IF institution # <<>>
              THEN [NoWhere EXCEPT !.institution = <<Lower(institution)>>]
              ELSE NoWhere
        w2 == WithListFilter(w1, "target_audience", target_audience)
        w3 == WithListFilter(w2, "tags", tags)
    IN  WithListFilter(w3, "type", resource_type)

\* a record satisfies a where clause: every top-level key holds, and "$or"
\* holds when one of its entries does
Satisfies(record, where) ==
    /\ \A field \in FilterKeys :
          where[field] # <<>> =>
              Contains(record.metadata[field], where[field][1])
    /\ where.or # <<>> =>
          \E i \in 1..Len(where.or) :
              Contains(record.metadata[where.or[i].field], where.or[i].token)

\* distance between a query embedding and a stored embedding
Distance(q, e) == Abs(q - e)

\* the records in order of ascending distance to q, ties in insertion order
RECURSIVE Ranked(_, _)
Ranked(records, q) ==
    IF records = <<>> THEN <<>>
    ELSE LET best == CHOOSE i \in 1..Len(records) :
                        /\ \A j \in 1..Len(records) :
                              Distance(q, records[i].embedding)
                                  <= Distance(q, records[j].embedding)
                        /\ \A j \in 1..(i - 1) :
                              Distance(q, records[j].embedding)
                                  > Distance(q, records[i].embedding)
         IN  <<records[best]>>
             \o Ranked(SubSeq(records, 1, best - 1)
                       \o SubSeq(records, best + 1, Len(records)), q)

\* a query that returns the matching records in insertion order
CollectionQueryUnranked(coll, q, n_results, where) ==
    IF n_results <= 0
    THEN [status |-> "raise", records |-> <<>>]
    ELSE [status |-> "ok",
          records |->
              Take(SelectSeq(coll, LAMBDA r : Satisfies(r, where)), n_results)]

\* collection.query: n_results below 1 is rejected with an exception,
\* otherwise the n_results nearest records that satisfy the where clause
CollectionQuery(coll, q, n_results, where) ==
    IF n_results <= 0
    THEN [status |-> "raise", records |-> <<>>]
    ELSE [status |-> "ok",
          records |->
              Take(Ranked(SelectSeq(coll, LAMBDA r : Satisfies(r, where)), q),
                   n_results)]

FormatResult(record, q) ==
    [id |-> record.id, metadata |-> record.metadata,
     document |-> record.document,
     distance |-> Distance(q, record.embedding)]

\* search: where clause, query, formatted results
search(coll, q, limit, institution, target_audience, tags, resource_type) ==
    LET where == BuildWhere(institution, target_audience, tags, resource_type)
        found == CollectionQuery(coll, q, limit, where)
    IN  [status |-> found.status,
         results |-> [i \in 1..Len(found.records) |->
                         FormatResult(found.records[i], q)]]

-----------------------------------------------------------------------------
(* RAGSystem.generate_curriculum *)

EmbRange == 5

RECURSIVE TotalLen(_)
TotalLen(words) ==
    IF words = <<>> THEN 0 ELSE Len(Head(words)) + TotalLen(Tail(words))

\* embedding_model.encode of a query text: a fixed function of its words
Encode(words) == TotalLen(words) % EmbRange

\* a topic search that keeps everything its search returned
TopicSearchKeepAll(coll, topic, institution, target_audience, preferred_types, limit_per_topic) ==
    LET q == Encode(<<topic>> \o target_audience)
        first == search(coll, q, limit_per_topic * 2, institution,
                        target_audience, <<topic>>, preferred_types)
        retry == first.status = "ok" /\ first.results = <<>>
        second == IF retry
                  THEN search(coll, q, limit_per_topic * 2, <<>>,
                              target_audience, <<topic>>, preferred_types)
                  ELSE first
    IN  [topic |-> topic,
         status |-> second.status,
         first |-> first.results,
         retried |-> retry,
         second |-> IF retry THEN second.results ELSE <<>>,
         kept |-> second.results]

\* a topic search that also retries when the first search found fewer
\* results than the topic may contribute
TopicSearchRetryShort(coll, topic, institution, target_audience, preferred_types, limit_per_topic) ==
    LET q == Encode(<<topic>> \o target_audience)
        first == search(coll, q, limit_per_topic * 2, institution,
                        target_audience, <<topic>>, preferred_types)
        retry == first.status = "ok" /\ Len(first.results) < limit_per_topic
        second == IF retry
                  THEN search(coll, q, limit_per_topic * 2, <<>>,
                              target_audience, <<topic>>, preferred_types)
                  ELSE first
        resources == second.results
    IN  [topic |-> topic,
         status |-> second.status,
         first |-> first.results,
         retried |-> retry,
         second |-> IF retry THEN second.results ELSE <<>>,
         kept |-> Slice(resources, limit_per_topic)]

\* the searches and the contribution of one topic
TopicSearch(coll, topic, institution, target_audience, preferred_types, limit_per_topic) ==
    LET q == Encode(<<topic>> \o target_audience)
        first == search(coll, q, limit_per_topic * 2, institution,
                        target_audience, <<topic>>, preferred_types)
        retry == first.status = "ok" /\ first.results = <<>>
        second == IF retry
                  THEN search(coll, q, limit_per_topic * 2, <<>>,
                              target_audience, <<topic>>, preferred_types)
                  ELSE first
        resources == second.results
    IN  [topic |-> topic,
         status |-> second.status,
         first |-> first.results,
         retried |-> retry,
         second |-> IF retry THEN second.results ELSE <<>>,
         kept |-> Slice(resources, limit_per_topic)]

\* a loop that gives up at the first topic without results
RECURSIVE TopicLoopAbort(_, _, _, _, _, _)
TopicLoopAbort(coll, topics, institution, target_audience, preferred_types, limit_per_topic) ==
    IF topics = <<>> THEN <<>>
    ELSE LET this == TopicSearch(coll, Head(topics), institution,
                                 target_audience, preferred_types,
                                 limit_per_topic)
         IN  IF this.status = "raise" \/ this.kept = <<>> THEN <<this>>
             ELSE <<this>> \o TopicLoopAbort(coll, Tail(topics), institution,
                                             target_audience, preferred_types,
                                             limit_per_topic)

\* the "for topic in topics" loop: one entry per topic searched, stopping at
\* the first search that raises
RECURSIVE TopicLoop(_, _, _, _, _, _)
TopicLoop(coll, topics, institution, target_audience, preferred_types, limit_per_topic) ==
    IF topics = <<>> THEN <<>>
    ELSE LET this == TopicSearch(coll, Head(topics), institution,
                                 target_audience, preferred_types,
                                 limit_per_topic)
         IN  IF this.status = "raise" THEN <<this>>
             ELSE <<this>> \o TopicLoop(coll, Tail(topics), institution,
                                        target_audience, preferred_types,
                                        limit_per_topic)

\* a merge that forgets to consult seen_ids
DedupKeepAll(resources, seen_ids) == resources

\* "Combine and deduplicate": the first resource of each id, in order
RECURSIVE Dedup(_, _)
Dedup(resources, seen_ids) ==
    IF resources = <<>> THEN <<>>
    ELSE IF Head(resources).id \notin seen_ids
         THEN <<Head(resources)>>
              \o Dedup(Tail(resources), seen_ids \cup {Head(resources).id})
         ELSE Dedup(Tail(resources), seen_ids)

\* time_per_resource = min(duration_hours * 60 / max(count, 1), 30), as the
\* numerator over the denominator max(count, 1)
TimePerResource(duration_minutes, count) ==
    Min(duration_minutes, 30 * Max(count, 1))

\* the schedule: item i (from 0) starts at i * time_per_resource
Schedule(resources, duration_minutes) ==
    LET time_per_resource == TimePerResource(duration_minutes, Len(resources))
    IN  [i \in 1..Len(resources) |->
            [start_minutes |-> (i - 1) * time_per_resource,
             duration_minutes |-> time_per_resource,
             metadata |-> resources[i].metadata]]

GeneralLimit == 5

\* the curriculum returned for the deduplicated resources
Assembled(log, general, resources, duration_minutes) ==
    [status |-> "ok", log |-> log, general |-> general,
     resources |-> resources,
     schedule |-> Schedule(resources, duration_minutes),
     denominator |-> Max(Len(resources), 1)]

\* a merge that puts the general results before the topics' results
CombineGeneralFirst(log, general, duration_minutes) ==
    IF general.status = "raise"
          \/ \E i \in 1..Len(log) : log[i].status = "raise"
    THEN [status |-> "raise", log |-> log, general |-> <<>>,
          resources |-> <<>>, schedule |-> <<>>, denominator |-> 1]
    ELSE Assembled(log, general.results,
                   Dedup(general.results
                         \o Concat([i \in 1..Len(log) |-> log[i].kept]), {}),
                   duration_minutes)

\* generate_curriculum after its searches: merge, deduplicate, schedule;
\* an exception of a search is the caller's
Combine(log, general, duration_minutes) ==
    IF general.status = "raise"
          \/ \E i \in 1..Len(log) : log[i].status = "raise"
    THEN [status |-> "raise", log |-> log, general |-> <<>>,
          resources |-> <<>>, schedule |-> <<>>, denominator |-> 1]
    ELSE Assembled(log, general.results,
                   Dedup(Concat([i \in 1..Len(log) |-> log[i].kept])
                         \o general.results, {}),
                   duration_minutes)

generate_curriculum(coll, institution, target_audience, topics, duration_minutes, preferred_types, limit_per_topic) ==
    Combine(TopicLoop(coll, topics, institution, target_audience,
                      preferred_types, limit_per_topic),
            search(coll, Encode(target_audience), GeneralLimit, <<>>,
                   target_audience, <<>>, preferred_types),
            duration_minutes)

\* the "for topic in topics" loop on an index whose queries for the topics
\* in down raise: the loop has no handler, the first such topic ends it
RECURSIVE TopicLoopDown(_, _, _, _, _, _, _)
TopicLoopDown(coll, topics, institution, target_audience, preferred_types, limit_per_topic, down) ==
    IF topics = <<>> THEN <<>>
    ELSE LET this == IF Head(topics) \in down
                     THEN [topic |-> Head(topics), status |-> "raise",
                           first |-> <<>>, retried |-> FALSE,
                           second |-> <<>>, kept |-> <<>>]
                     ELSE TopicSearch(coll, Head(topics), institution,
                                      target_audience, preferred_types,
                                      limit_per_topic)
         IN  IF this.status = "raise" THEN <<this>>
             ELSE <<this>> \o TopicLoopDown(coll, Tail(topics), institution,
                                            target_audience, preferred_types,
                                            limit_per_topic, down)

\* generate_curriculum on such an index
generate_curriculum_down(coll, institution, target_audience, topics, duration_minutes, preferred_types, limit_per_topic, down) ==
    Combine(TopicLoopDown(coll, topics, institution, target_audience,
                          preferred_types, limit_per_topic, down),
            search(coll, Encode(target_audience), GeneralLimit, <<>>,
                   target_audience, <<>>, preferred_types),
            duration_minutes)

-----------------------------------------------------------------------------
(* AdvancedCurriculumGenerator *)

\* str(e) of the exceptions the service call can end in
\* raise_for_status on HTTP 401
Msg401 ==
    <<"4", "0", "1", " ", "C", "l", "i", "e", "n", "t", " ", "E", "r", "r",
      "o", "r", ":", " ", "U", "n", "a", "u", "t", "h", "o", "r", "i", "z",
      "e", "d">>

\* raise_for_status on HTTP 403
Msg403 ==
    <<"4", "0", "3", " ", "C", "l", "i", "e", "n", "t", " ", "E", "r", "r",
      "o", "r", ":", " ", "F", "o", "r", "b", "i", "d", "d", "e", "n">>

\* raise_for_status on HTTP 429 (rate limit)
Msg429 ==
    <<"4", "2", "9", " ", "C", "l", "i", "e", "n", "t", " ", "E", "r", "r",
      "o", "r", ":", " ", "T", "o", "o", " ", "M", "a", "n", "y", " ", "R",
      "e", "q", "u", "e", "s", "t", "s">>

\* raise_for_status on HTTP 500
Msg500 ==
    <<"5", "0", "0", " ", "S", "e", "r", "v", "e", "r", " ", "E", "r", "r",
      "o", "r">>

\* requests.exceptions.ReadTimeout
MsgTimeout ==
    <<"R", "e", "a", "d", " ", "t", "i", "m", "e", "d", " ", "o", "u", "t",
      ".", " ", "(", "r", "e", "a", "d", " ", "t", "i", "m", "e", "o", "u",
      "t", "=", "1", "2", "0", ")">>

\* requests.exceptions.ConnectionError
MsgConnection ==
    <<"C", "o", "n", "n", "e", "c", "t", "i", "o", "n", " ", "r", "e", "f",
      "u", "s", "e", "d", " ", "(", "o", "b", "j", "e", "c", "t", " ", "a",
      "t", " ", "0", "x", "7", "f", "3", "c", "5", "e", "1", "a", "9", "0",
      ")">>

\* the same error when the object's address has the digits 403
MsgConnectionAt403 ==
    <<"C", "o", "n", "n", "e", "c", "t", "i", "o", "n", " ", "r", "e", "f",
      "u", "s", "e", "d", " ", "(", "o", "b", "j", "e", "c", "t", " ", "a",
      "t", " ", "0", "x", "7", "f", "4", "0", "3", "1", "a", "9", "0", ")">>

\* the exception raised for a reply without choices
MsgShape ==
    <<"U", "n", "e", "x", "p", "e", "c", "t", "e", "d", " ", "r", "e", "s",
      "p", "o", "n", "s", "e", " ", "f", "o", "r", "m", "a", "t", ":", " ",
      "{", "}">>

\* KeyError of a choice without message
MsgKey ==
    <<"'", "m", "e", "s", "s", "a", "g", "e", "'">>

\* response.json() on a body that is not JSON
MsgExpectingValue ==
    <<"E", "x", "p", "e", "c", "t", "i", "n", "g", " ", "v", "a", "l", "u",
      "e", ":", " ", "l", "i", "n", "e", " ", "1", " ", "c", "o", "l", "u",
      "m", "n", " ", "1", " ", "(", "c", "h", "a", "r", " ", "0", ")">>

Txt401 == <<"4", "0", "1">>
Txt403 == <<"4", "0", "3">>
TxtUnauthorized ==
    <<"u", "n", "a", "u", "t", "h", "o", "r", "i", "z", "e", "d">>

\* str.strip(): whitespace removed at both ends
Whitespace == {" ", "\n"}

RECURSIVE LStrip(_)
LStrip(s) ==
    IF s # <<>> /\ Head(s) \in Whitespace THEN LStrip(Tail(s)) ELSE s

RECURSIVE RStrip(_)
RStrip(s) ==
    IF s # <<>> /\ s[Len(s)] \in Whitespace
    THEN RStrip(SubSeq(s, 1, Len(s) - 1))
    ELSE s

Strip(s) == RStrip(LStrip(s))

StartsWith(s, prefix) ==
    Len(s) >= Len(prefix) /\ SubSeq(s, 1, Len(prefix)) = prefix

EndsWith(s, suffix) ==
    Len(s) >= Len(suffix)
        /\ SubSeq(s, Len(s) - Len(suffix) + 1, Len(s)) = suffix

\* the backquote character
Backquote == "BACKQUOTE"

Fence == <<Backquote, Backquote, Backquote>>
FenceJson == Fence \o <<"j", "s", "o", "n">>

\* a fence removal that forgets the closing fence
StripFencesLeadingOnly(content) ==
    Strip(IF StartsWith(content, FenceJson)
          THEN SubSeq(content, 8, Len(content))
          ELSE IF StartsWith(content, Fence)
               THEN SubSeq(content, 4, Len(content))
               ELSE content)

\* "Remove markdown code blocks if present": content[7:] or content[3:],
\* then content[:-3], then strip()
StripFences(content) ==
    LET opened == IF StartsWith(content, FenceJson)
                  THEN SubSeq(content, 8, Len(content))
                  ELSE IF StartsWith(content, Fence)
                       THEN SubSeq(content, 4, Len(content))
                       ELSE content
        closed == IF EndsWith(opened, Fence)
                  THEN SubSeq(opened, 1, Len(opened) - 3)
                  ELSE opened
    IN  Strip(closed)

\* JSON documents the service sends as message content, and texts that are
\* not JSON
PayloadObject == <<"{", "\"", "k", "\"", ":", "1", "}">>
PayloadSpaced == <<"{", "\n", "\"", "k", "\"", ":", " ", "1", "\n", "}">>
PayloadEmpty == <<"{", "}">>
PayloadList == <<"[", "1", "]">>
Prose == <<"H", "e", "r", "e", " ", "i", "s", " ", "{", "}">>

\* the texts among them that are JSON documents
JsonDocuments == {PayloadObject, PayloadSpaced, PayloadEmpty, PayloadList}

\* json.loads: the value of a JSON document, in which the whitespace around
\* the document and between its tokens does not count, or JSONDecodeError
json_loads(text) ==
    IF Strip(text) \in JsonDocuments
    THEN [status |-> "ok",
          value |-> SelectSeq(text, LAMBDA c : c \notin Whitespace)]
    ELSE [status |-> "JSONDecodeError", value |-> <<>>]

\* lines 200-214: strip the message content, remove the fences, parse
ParseContent(message_content) ==
    json_loads(StripFences(Strip(message_content)))

\* the detailed content built from the service's JSON document
LlmContent(value) ==
    [source |-> "llm", learning_objectives |-> <<>>, schedule |-> <<>>,
     activities |-> <<>>, value |-> value]

\* what requests.post, raise_for_status and response.json can end in:
\* an exception with its text, or a parsed reply.  The exception of
\* response.json() on a body that is not JSON is a json.JSONDecodeError
\* ("body_json_error") unless requests was built on simplejson, whose
\* JSONDecodeError is only a ValueError ("body_simplejson_error").
Failure(kind, message) ==
    [kind |-> kind, message |-> message, content |-> <<>>]
Reply(kind, content) ==
    [kind |-> kind, message |-> <<>>, content |-> content]

ServiceOutcomes ==
    {Failure("http_error", Msg401), Failure("http_error", Msg403),
     Failure("http_error", Msg429), Failure("http_error", Msg500),
     Failure("timeout", MsgTimeout),
     Failure("connection_error", MsgConnection),
     Failure("connection_error", MsgConnectionAt403),
     Failure("no_choices", MsgShape), Failure("no_message", MsgKey),
     Failure("body_json_error", MsgExpectingValue),
     Failure("body_simplejson_error", MsgExpectingValue),
     Reply("reply", PayloadObject), Reply("reply", Prose)}

NotCalled == Failure("not_called", <<>>)

\* a constructor that does not look for the API key
InitUseLlmKeyUnchecked(use_llm, requests_importable, api_key_given, env_key_set) ==
    use_llm /\ requests_importable

\* __init__: use_llm after construction
InitUseLlm(use_llm, requests_importable, api_key_given, env_key_set) ==
    IF ~use_llm THEN FALSE
    ELSE IF ~requests_importable THEN FALSE
    ELSE api_key_given \/ env_key_set

\* _create_basic_content
_create_basic_content(curriculum, learning_objectives) ==
    [source |-> "basic",
     overview |-> <<"Workshop on", curriculum.topics, "for",
                    curriculum.target_audience, "students.">>,
     learning_objectives |->
         IF learning_objectives # <<>> THEN learning_objectives
         ELSE [i \in 1..Len(curriculum.topics) |->
                  <<"Understand key concepts in", curriculum.topics[i]>>],
     schedule |-> curriculum.schedule,
     activities |->
         [i \in 1..Len(curriculum.resources) |->
             [title |-> curriculum.resources[i].metadata.file_name,
              duration_minutes |-> 30]]]

\* a synthesis that takes the resources out of the curriculum as it turns
\* them into activities
BasicContentCallDraining(curriculum, learning_objectives) ==
    [content |-> _create_basic_content(curriculum, learning_objectives),
     curriculum |-> [curriculum EXCEPT !.resources = <<>>]]

\* one call of _create_basic_content: the content returned and the
\* curriculum object as the call leaves it (the method only reads it)
BasicContentCall(curriculum, learning_objectives) ==
    [content |-> _create_basic_content(curriculum, learning_objectives),
     curriculum |-> curriculum]

\* the "except Exception" handler's test for an API key error
IsAuthError(error_str) ==
    \/ Contains(error_str, Txt401)
    \/ Contains(error_str, Txt403)
    \/ Contains(Lower(error_str), TxtUnauthorized)

\* a handler that re-raises every service failure
_create_detailed_content_reraise(use_llm, curriculum, learning_objectives, outcome) ==
    LET basic == [status |-> "ok", called |-> use_llm,
                  content |-> _create_basic_content(curriculum,
                                                    learning_objectives)]
    IN  IF ~use_llm THEN basic
        ELSE IF outcome.kind = "reply"
             THEN IF ParseContent(outcome.content).status = "ok"
                  THEN [status |-> "ok", called |-> TRUE,
                        content |->
                            LlmContent(ParseContent(outcome.content).value)]
                  ELSE basic
             ELSE [status |-> "raise", called |-> TRUE,
                   content |-> basic.content]

\* _create_detailed_content: the content returned, or "raise"
_create_detailed_content(use_llm, curriculum, learning_objectives, outcome) ==
    LET basic == [status |-> "ok", called |-> use_llm,
                  content |-> _create_basic_content(curriculum,
                                                    learning_objectives)]
    IN  IF ~use_llm THEN basic
        ELSE IF outcome.kind = "reply"
             THEN IF ParseContent(outcome.content).status = "ok"
                  THEN [status |-> "ok", called |-> TRUE,
                        content |->
                            LlmContent(ParseContent(outcome.content).value)]
                  ELSE basic
             ELSE IF outcome.kind = "body_json_error"
                  THEN \* "except json.JSONDecodeError" reads content, which
                       \* is not bound yet: UnboundLocalError leaves the handler
                       [status |-> "raise", called |-> TRUE,
                        content |-> basic.content]
             ELSE IF IsAuthError(outcome.message)
                  THEN [status |-> "raise", called |-> TRUE,
                        content |-> basic.content]
                  ELSE basic

DetailedLimit == 5

\* curriculum['detailed_content'] = ...; return curriculum
WithDetailedContent(c, detailed) ==
    [status |-> detailed.status, curriculum |-> c, called |-> detailed.called,
     detailed_content |-> detailed.content]

\* the second half of generate_detailed_curriculum, for the curriculum c that
\* rag.generate_curriculum returned
Enhance(use_llm, c, topics, target_audience, learning_objectives, outcome) ==
    WithDetailedContent(c,
        _create_detailed_content(use_llm,
            [topics |-> topics, target_audience |-> target_audience,
             resources |-> c.resources, schedule |-> c.schedule],
            learning_objectives, outcome))

\* generate_detailed_curriculum
generate_detailed_curriculum(use_llm, coll, institution, target_audience, topics, duration_minutes, preferred_types, learning_objectives, outcome) ==
    Enhance(use_llm,
            generate_curriculum(coll, institution, target_audience, topics,
                                duration_minutes, preferred_types,
                                DetailedLimit),
            topics, target_audience, learning_objectives, outcome)

-----------------------------------------------------------------------------
(* State machine: the directory and the ingestion script *)

NoRet == [op |-> "none", status |-> "ok"]

\* no generate_from_prompt call is in progress
Idle == [pc |-> "idle"]

\* the threads of the server's pool that serve requests
Threads == {"t1", "t2"}

\* the server process after import: both globals None (0), nothing
\* constructed, no request being served
ServerStart ==
    [_rag_system |-> 0, _curriculum_generator |-> 0,
     rag_systems |-> 0, curriculum_generators |-> 0,
     threads |-> [t \in Threads |->
                     [pc |-> "idle", target |-> "none", got |-> 0]]]

Init ==
    /\ dir = <<>>
    /\ collection = <<>>
    /\ lastBatch = <<>>
    /\ ret = NoRet
    /\ call = Idle
    /\ server = ServerStart

InsertAt(s, i, x) == SubSeq(s, 1, i - 1) \o <<x>> \o SubSeq(s, i, Len(s))

\* A markdown file appears in the resources directory; where glob lists it
\* is up to the file system.
AddFile ==
    /\ Len(dir) < MaxDirFiles
    /\ \E f \in Files \ Range(dir), i \in 1..(Len(dir) + 1) :
          dir' = InsertAt(dir, i, f)
    /\ ret' = NoRet
    /\ UNCHANGED <<collection, lastBatch, call, server>>

\* A markdown file is deleted from the resources directory.
RemoveFile ==
    /\ \E i \in 1..Len(dir) :
          dir' = SubSeq(dir, 1, i - 1) \o SubSeq(dir, i + 1, Len(dir))
    /\ ret' = NoRet
    /\ UNCHANGED <<collection, lastBatch, call, server>>

\* setup_rag.main: optional reset, parse_directory, add_documents
Setup ==
    \E reset \in BOOLEAN :
        LET base == IF reset THEN <<>> ELSE collection
            documents == parse_directory(dir)
            added == add_documents(base, documents)
        IN  /\ Len(base) + Len(documents) <= MaxRecords
            /\ collection' = IF documents = <<>> THEN base
                                                 ELSE added.collection
            /\ lastBatch' = documents
            /\ ret' = [op |-> "setup",
                       status |-> IF documents = <<>> THEN "ok"
                                                      ELSE added.status,
                       reset |-> reset,
                       documents |-> documents,
                       repeated |-> documents # <<>> /\ documents = lastBatch,
                       count_before |-> Len(get_all_resources(collection))]
            /\ UNCHANGED <<dir, call, server>>

Next ==
    \/ AddFile
    \/ RemoveFile
    \/ Setup

Spec == Init /\ [][Next]_vars

-----------------------------------------------------------------------------
(* State machine: queries against an ingested collection *)

MaxIndexFiles == 3    \* files in the directory the collection was built from

\* the sequences of at most n distinct elements of S
RECURSIVE Listings(_, _)
Listings(S, n) ==
    IF n = 0 THEN {<<>>}
    ELSE Listings(S, n - 1)
         \cup {Append(l, f) : l \in {m \in Listings(S, n - 1) : Len(m) = n - 1},
                              f \in S}

\* the files of the directories the queried collections were built from
IndexFiles == {FileA, FileB, FileC, FileD}

IndexListings ==
    {l \in Listings(IndexFiles, MaxIndexFiles) :
        \A i, j \in 1..Len(l) : i # j => l[i] # l[j]}

\* the collection after setup_rag has run once on some directory
QueryInit ==
    \E listing \in IndexListings :
        /\ dir = listing
        /\ collection = add_documents(<<>>, parse_directory(listing)).collection
        /\ lastBatch = parse_directory(listing)
        /\ ret = NoRet
        /\ call = Idle
        /\ server = ServerStart

Institutions == {<<>>, MitRaw, Su}
AudienceLists == {<<>>, <<El>>, <<Ms>>, <<ElRaw, Ms>>}
TagLists == {<<>>, <<Eth>>, <<Bias>>, <<Eth, Ml>>}
TypeLists == {<<>>, <<Act>>, <<Act, Vid>>}
TopicLists == {<<>>, <<Eth>>, <<Bias, Eth>>, <<Ml, Eth>>}
QueryEmbeddings == {0, 2}
Limits == (0 - 1)..MaxLimit
Durations == {0 - 60, 0, 45, 120}     \* duration_hours * 60

\* POST /api/search
Search ==
    /\ ret = NoRet
    /\ UNCHANGED <<dir, collection, lastBatch, call, server>>
    /\ \E q \in QueryEmbeddings, limit \in Limits, institution \in Institutions,
          target_audience \in AudienceLists, tags \in TagLists,
          resource_type \in TypeLists :
        \E found \in {search(collection, q, limit, institution,
                             target_audience, tags, resource_type)} :
            ret' = [op |-> "search", status |-> found.status, q |-> q,
                    limit |-> limit, institution |-> institution,
                    target_audience |-> target_audience, tags |-> tags,
                    resource_type |-> resource_type,
                    results |-> found.results]

\* RAGSystem.generate_curriculum, as the CLI and the API call it
GenerateCurriculum ==
    /\ ret = NoRet
    /\ UNCHANGED <<dir, collection, lastBatch, call, server>>
    /\ \E institution \in {<<>>, MitRaw}, target_audience \in AudienceLists,
          topics \in TopicLists, duration_minutes \in Durations,
          preferred_types \in {<<>>, <<Act>>}, limit_per_topic \in Limits :
        \E c \in {generate_curriculum(collection, institution,
                       target_audience, topics, duration_minutes,
                       preferred_types, limit_per_topic)} :
            ret' = [op |-> "curriculum", status |-> c.status,
                    institution |-> institution,
                    target_audience |-> target_audience,
                    topics |-> topics,
                    duration_minutes |-> duration_minutes,
                    preferred_types |-> preferred_types,
                    limit_per_topic |-> limit_per_topic,
                    log |-> c.log, general |-> c.general,
                    resources |-> c.resources, schedule |-> c.schedule,
                    denominator |-> c.denominator]

\* message contents of service replies: a text, bare or between fences,
\* with whitespace around the text and around the whole
Wrapped(outer, lead, inner, text, trail) ==
    outer \o lead \o inner \o text \o inner \o trail \o outer

ReplyTexts ==
    {[text |-> text, lead |-> lead, trail |-> trail,
      content |-> Wrapped(outer, lead, inner, text, trail)] :
        outer \in {<<>>, <<"\n">>}, lead \in {<<>>, Fence, FenceJson},
        inner \in {<<>>, <<"\n">>, <<" ", "\n">>},
        text \in JsonDocuments \cup {Prose, <<>>},
        trail \in {<<>>, Fence}}

\* the curriculum the replies are generated for
ReplyCurriculum ==
    [topics |-> <<Eth>>, target_audience |-> <<El>>, resources |-> <<>>,
     schedule |-> <<>>]

\* the service has replied with some message content
ReplyInit ==
    /\ dir = <<>> /\ collection = <<>> /\ lastBatch = <<>> /\ call = Idle
    /\ server = ServerStart
    /\ \E reply \in ReplyTexts :
          ret = [op |-> "reply", status |-> "ok", reply |-> reply]

\* _create_detailed_content from the reply on
CreateDetailedContent ==
    /\ ret.op = "reply"
    /\ UNCHANGED <<dir, collection, lastBatch, call, server>>
    /\ \E detailed \in {_create_detailed_content(TRUE, ReplyCurriculum, <<>>,
                              Reply("reply", ret.reply.content))} :
          ret' = [op |-> "content", status |-> detailed.status,
                  reply |-> ret.reply, content |-> detailed.content]

ReplyNext == CreateDetailedContent

ReplySpec == ReplyInit /\ [][ReplyNext]_vars

\* the "for i, resource in enumerate(all_resources)" loop of
\* remove_duplicates that also takes the empty file_path for a key
RECURSIVE DuplicateIdsAnyPath(_, _)
DuplicateIdsAnyPath(all_resources, file_paths) ==
    IF all_resources = <<>> THEN <<>>
    ELSE LET resource == Head(all_resources)
             file_path == resource.metadata.file_path
         IN  IF file_path \in file_paths
             THEN <<resource.id>>
                  \o DuplicateIdsAnyPath(Tail(all_resources), file_paths)
             ELSE DuplicateIdsAnyPath(Tail(all_resources),
                                      file_paths \cup {file_path})

\* the "for i, resource in enumerate(all_resources)" loop of
\* remove_duplicates: the ids of the resources whose non-empty file_path an
\* earlier resource has; file_paths holds the paths seen so far
RECURSIVE DuplicateIds(_, _)
DuplicateIds(all_resources, file_paths) ==
    IF all_resources = <<>> THEN <<>>
    ELSE LET resource == Head(all_resources)
             file_path == resource.metadata.file_path
         IN  IF file_path # ""
             THEN IF file_path \in file_paths
                  THEN <<resource.id>>
                       \o DuplicateIds(Tail(all_resources), file_paths)
                  ELSE DuplicateIds(Tail(all_resources),
                                    file_paths \cup {file_path})
             ELSE DuplicateIds(Tail(all_resources), file_paths)

\* collection.delete(ids=...)
CollectionDelete(coll, ids) ==
    SelectSeq(coll, LAMBDA r : r.id \notin Range(ids))

MaxStored == 4

\* file_path values of stored records; "" is the default add_documents
\* stores for a document without one
StoredPaths == {"", "a.md", "sub/c.md"}

\* a stored record with the k-th id and the given file_path
StoredRecord(k, file_path) ==
    [id |-> <<"doc", k, "x.md">>,
     metadata |-> [file_path |-> file_path, file_name |-> "x.md",
                   institution |-> json_dumps(<<>>), tags |-> json_dumps(<<>>),
                   target_audience |-> json_dumps(<<>>),
                   type |-> json_dumps(<<>>)],
     document |-> [parts |-> <<>>, content |-> <<>>],
     embedding |-> 0]

\* any index content: up to MaxStored records, every id once
StoredInit ==
    /\ dir = <<>> /\ lastBatch = <<>> /\ call = Idle /\ ret = NoRet
    /\ server = ServerStart
    /\ \E n \in 0..MaxStored :
       \E paths \in [1..n -> StoredPaths] :
          collection = [k \in 1..n |-> StoredRecord(k - 1, paths[k])]

\* python remove_duplicates.py
RemoveDuplicates ==
    /\ UNCHANGED <<dir, lastBatch, call, server>>
    /\ \E duplicate_ids \in {DuplicateIds(get_all_resources(collection), {})} :
          /\ collection' = IF duplicate_ids # <<>>
                           THEN CollectionDelete(collection, duplicate_ids)
                           ELSE collection
          /\ ret' = [op |-> "remove_duplicates", status |-> "ok",
                     before |-> collection, duplicate_ids |-> duplicate_ids]

StoredNext == RemoveDuplicates

StoredSpec == StoredInit /\ [][StoredNext]_vars

\* the server is up and has served nothing yet
ServerInit ==
    /\ dir = <<>> /\ collection = <<>> /\ lastBatch = <<>>
    /\ ret = NoRet /\ call = Idle
    /\ server = ServerStart

\* thread t moves to pc, with the server's other fields as in next
Step(t, pc, next) ==
    /\ UNCHANGED <<dir, collection, lastBatch, ret, call>>
    /\ server' = [next EXCEPT !.threads[t].pc = pc]

\* a request arrives and thread t serves it: /api/search and /api/resources
\* call get_rag_system(), /api/curriculum calls get_curriculum_generator()
ServeRequest(t) ==
    /\ server.threads[t].pc \in {"idle", "done"}
    /\ \E target \in {"rag", "generator"} :
          Step(t, IF target = "rag" THEN "rag_check" ELSE "generator_check",
               [server EXCEPT !.threads[t].target = target,
                              !.threads[t].got = 0])

\* get_curriculum_generator: "if _curriculum_generator is None:"; when it
\* is, the argument get_rag_system() is evaluated first
CheckGenerator(t) ==
    /\ server.threads[t].pc = "generator_check"
    /\ Step(t, IF server._curriculum_generator = 0 THEN "rag_check"
                                                    ELSE "generator_return",
            server)

\* get_rag_system: "if _rag_system is None:"
CheckRag(t) ==
    /\ server.threads[t].pc = "rag_check"
    /\ Step(t, IF server._rag_system = 0 THEN "rag_construct"
                                          ELSE "rag_return",
            server)

\* "_rag_system = RAGSystem()": a new instance is constructed and assigned
ConstructRag(t) ==
    /\ server.threads[t].pc = "rag_construct"
    /\ Step(t, "rag_return",
            [server EXCEPT !.rag_systems = @ + 1,
                           !._rag_system = server.rag_systems + 1])

\* "return _rag_system": to the handler, or to get_curriculum_generator
ReturnRag(t) ==
    /\ server.threads[t].pc = "rag_return"
    /\ IF server.threads[t].target = "generator"
       THEN Step(t, "generator_construct", server)
       ELSE Step(t, "done",
                 [server EXCEPT !.threads[t].got = server._rag_system])

\* "_curriculum_generator = AdvancedCurriculumGenerator(...)"
ConstructGenerator(t) ==
    /\ server.threads[t].pc = "generator_construct"
    /\ Step(t, "generator_return",
            [server EXCEPT !.curriculum_generators = @ + 1,
                           !._curriculum_generator =
                               server.curriculum_generators + 1])

\* "return _curriculum_generator"
ReturnGenerator(t) ==
    /\ server.threads[t].pc = "generator_return"
    /\ Step(t, "done",
            [server EXCEPT !.threads[t].got = server._curriculum_generator])

ServerNext ==
    \E t \in Threads :
        \/ ServeRequest(t)
        \/ CheckGenerator(t)
        \/ CheckRag(t)
        \/ ConstructRag(t)
        \/ ReturnRag(t)
        \/ ConstructGenerator(t)
        \/ ReturnGenerator(t)

ServerSpec == ServerInit /\ [][ServerNext]_vars

\* the searches alone
SearchNext == Search

SearchSpec == QueryInit /\ [][SearchNext]_vars

DefaultLimitPerTopic == 3    \* limit_per_topic when the caller passes none
DefaultDuration == 120       \* duration_hours = 2.0, in minutes

\* RAGSystem.generate_curriculum while the index fails for some topics
GenerateCurriculumIndexDown ==
    /\ ret = NoRet
    /\ UNCHANGED <<dir, collection, lastBatch, call, server>>
    /\ \E institution \in {<<>>, MitRaw}, target_audience \in AudienceLists,
          topics \in TopicLists, limit_per_topic \in 1..MaxLimit,
          down \in SUBSET {Eth, Bias, Ml} :
        \E c \in {generate_curriculum_down(collection, institution,
                       target_audience, topics, DefaultDuration, <<>>,
                       limit_per_topic, down)} :
            ret' = [op |-> "curriculum_down", status |-> c.status,
                    institution |-> institution,
                    target_audience |-> target_audience,
                    topics |-> topics, limit_per_topic |-> limit_per_topic,
                    down |-> down, log |-> c.log, resources |-> c.resources]

TopicFailureNext == GenerateCurriculumIndexDown

TopicFailureSpec == QueryInit /\ [][TopicFailureNext]_vars

RequiredFields == {"institution", "target_audience", "topics"}

\* JSON bodies posted to /api/curriculum: the fields present and their values
CurriculumRequests ==
    {[present |-> present, institution |-> institution,
      target_audience |-> <<El>>, topics |-> topics] :
        present \in {RequiredFields, RequiredFields \ {"institution"},
                     RequiredFields \ {"topics"}},
        institution \in {<<>>, MitRaw}, topics \in {<<>>, <<Eth>>, <<Bias, Eth>>}}

\* pydantic's validation of CurriculumRequest: the fields without a default
\* must be present; a str may be empty and so may a List[str]
CurriculumRequestValid(request) == RequiredFields \subseteq request.present

\* the searches generate_curriculum issued: per topic one and its retry,
\* and the general search
SearchesIssued(c) ==
    Len(c.log) + Cardinality({i \in 1..Len(c.log) : c.log[i].retried})
        + (IF \E i \in 1..Len(c.log) : c.log[i].status = "raise" THEN 0 ELSE 1)

\* what a curriculum request leaves in ret
Requested(entry, request, rejected, http_status, searches, c) ==
    [op |-> "request", entry |-> entry,
     status |-> IF rejected THEN "rejected" ELSE c.status,
     http_status |-> http_status, request |-> request,
     rejected |-> rejected, searches |-> searches,
     resources |-> c.resources, schedule |-> c.schedule]

NoCurriculum ==
    [status |-> "none", log |-> <<>>, general |-> <<>>, resources |-> <<>>,
     schedule |-> <<>>, denominator |-> 1]

\* POST /api/curriculum with use_advanced false: FastAPI validates the body
\* (HTTP 422), the handler calls rag.generate_curriculum, an exception
\* becomes HTTP 500
PostCurriculum ==
    /\ ret = NoRet
    /\ UNCHANGED <<dir, collection, lastBatch, call, server>>
    /\ \E request \in CurriculumRequests :
          IF ~CurriculumRequestValid(request)
          THEN ret' = Requested("api", request, TRUE, 422, 0, NoCurriculum)
          ELSE \E c \in {generate_curriculum(collection, request.institution,
                              request.target_audience, request.topics,
                              DefaultDuration, <<>>, DefaultLimitPerTopic)} :
                  ret' = Requested("api", request, FALSE,
                                   IF c.status = "ok" THEN 200 ELSE 500,
                                   SearchesIssued(c), c)

\* interactive_cli.generate_curriculum: the three prompts, each answer
\* checked for emptiness before the next prompt; then rag.generate_curriculum
CliCurriculum ==
    /\ ret = NoRet
    /\ UNCHANGED <<dir, collection, lastBatch, call, server>>
    /\ \E institution \in {<<>>, MitRaw}, target_audience \in {<<>>, <<El>>},
          topics \in {<<>>, <<Eth>>, <<Bias, Eth>>} :
       \E request \in {[present |-> RequiredFields,
                         institution |-> institution,
                         target_audience |-> target_audience,
                         topics |-> topics]} :
          IF institution = <<>> \/ target_audience = <<>> \/ topics = <<>>
          THEN ret' = Requested("cli", request, TRUE, 0, 0, NoCurriculum)
          ELSE \E c \in {generate_curriculum(collection, institution,
                              target_audience, topics, DefaultDuration, <<>>,
                              DefaultLimitPerTopic)} :
                  ret' = Requested("cli", request, FALSE, 0,
                                   SearchesIssued(c), c)

\* the caller has taken the response; the next request can be served
Return ==
    /\ ret # NoRet
    /\ ret' = NoRet
    /\ UNCHANGED <<dir, collection, lastBatch, call, server>>

QueryNext ==
    \/ Search
    \/ GenerateCurriculum
    \/ PostCurriculum
    \/ CliCurriculum
    \/ Return

QuerySpec == QueryInit /\ [][QueryNext]_vars

-----------------------------------------------------------------------------
(* State machine: curriculum requests with augmentation *)

ObjectiveLists == {<<>>, <<"objective">>}

\* POST /api/curriculum with use_advanced, served by a generator that was
\* constructed with the given arguments and environment; an exception
\* becomes HTTP 500
GenerateDetailed ==
    /\ ret = NoRet
    /\ UNCHANGED <<dir, collection, lastBatch, call, server>>
    /\ \E use_llm \in BOOLEAN, requests_importable \in BOOLEAN,
          api_key_given \in BOOLEAN, env_key_set \in BOOLEAN,
       target_audience \in {<<El>>, <<ElRaw, Ms>>},
       topics \in {<<Eth>>, <<Bias, Eth>>},
       duration_minutes \in {45, 120},
       learning_objectives \in ObjectiveLists :
      \E enabled \in {InitUseLlm(use_llm, requests_importable, api_key_given,
                                 env_key_set)} :
      \E outcome \in IF enabled THEN ServiceOutcomes ELSE {NotCalled} :
      \E d \in {generate_detailed_curriculum(enabled, collection, MitRaw,
                     target_audience, topics, duration_minutes, <<>>,
                     learning_objectives, outcome)} :
            ret' = [op |-> "detailed", status |-> d.status,
                    http_status |-> IF d.status = "ok" THEN 200 ELSE 500,
                    use_llm |-> enabled,
                    constructed_with |->
                        [use_llm |-> use_llm,
                         requests_importable |-> requests_importable,
                         api_key_given |-> api_key_given,
                         env_key_set |-> env_key_set],
                    topics |-> topics,
                    target_audience |-> target_audience,
                    learning_objectives |-> learning_objectives,
                    outcome |-> outcome,
                    called |-> d.called,
                    resources |-> d.curriculum.resources,
                    schedule |-> d.curriculum.schedule,
                    detailed_content |-> d.detailed_content]

\* the holder of a returned curriculum calls _create_basic_content on it,
\* and then once more on the same object
CreateBasicContentTwice ==
    /\ ret.op = "detailed" /\ ret.status = "ok"
    /\ UNCHANGED <<dir, collection, lastBatch, call, server>>
    /\ \E c \in {[topics |-> ret.topics,
                   target_audience |-> ret.target_audience,
                   resources |-> ret.resources,
                   schedule |-> ret.schedule]} :
       \E one \in {BasicContentCall(c, ret.learning_objectives)} :
       \E two \in {BasicContentCall(one.curriculum,
                                   ret.learning_objectives)} :
           ret' = [op |-> "basic", status |-> "ok",
                   learning_objectives |-> ret.learning_objectives,
                   before |-> c, after |-> two.curriculum,
                   first |-> one.content, second |-> two.content]

AugmentNext ==
    \/ GenerateDetailed
    \/ CreateBasicContentTwice
    \/ Return

AugmentSpec == QueryInit /\ [][AugmentNext]_vars

-----------------------------------------------------------------------------
(* PromptBasedGenerator *)

BroadLimit == 50           \* limit of the broad search
TopicLimit == 15           \* limit of each topic search
TopicCap == 10             \* unique topics searched at most
max_retries == 3
DefaultRetryDelay == 5     \* seconds

\* A prompt: the words its embedding is computed from, and the candidate
\* topics that the quoted-phrase, preposition and long-word extraction finds
\* in it, in extraction order.
Prompt(words, topics) == [words |-> words, topics |-> topics]

Prompts ==
    {Prompt(<<Su>>, <<>>), Prompt(<<Eth>>, <<Eth>>),
     Prompt(<<Bias, Ml>>, <<Bias, Ml, Bias>>)}

\* the first occurrence of every element, in order
RECURSIVE Unique(_, _)
Unique(s, seen) ==
    IF s = <<>> THEN <<>>
    ELSE IF Head(s) \in seen THEN Unique(Tail(s), seen)
         ELSE <<Head(s)>> \o Unique(Tail(s), seen \cup {Head(s)})

Reverse(s) == [i \in 1..Len(s) |-> s[Len(s) + 1 - i]]

\* list(set(topics)): the distinct topics in the order the string hashing of
\* the running process puts them; two of the orders it can produce
HashSeeds == {"forward", "backward"}

ListOfSet(topics, seed) ==
    IF seed = "forward" THEN Unique(topics, {})
                        ELSE Reverse(Unique(topics, {}))

\* unique_topics = list(set(topics))[:10]
UniqueTopics(topics, seed) == Take(ListOfSet(topics, seed), TopicCap)

\* self.rag.search(query=..., limit=...) on an index that answers (up) or
\* whose query raises
IndexSearch(coll, q, limit, up) ==
    IF up THEN search(coll, q, limit, <<>>, <<>>, <<>>, <<>>)
          ELSE [status |-> "raise", results |-> <<>>]

\* "for topic in unique_topics": topics of more than 2 characters are
\* searched, unseen results appended; a search that raises is skipped
RECURSIVE KeywordLoop(_, _, _, _)
KeywordLoop(coll, topics, down, all_results) ==
    IF topics = <<>> THEN all_results
    ELSE LET topic == Head(topics)
             found == IF Len(topic) > 2
                      THEN IndexSearch(coll, Encode(<<topic>>), TopicLimit,
                                       topic \notin down)
                      ELSE [status |-> "skipped", results |-> <<>>]
             keyword_results == IF found.status = "ok" THEN found.results
                                                       ELSE <<>>
         IN  KeywordLoop(coll, Tail(topics), down,
                         all_results
                             \o Dedup(keyword_results, Ids(all_results)))

\* "Remove duplicates first based on file_path or title": the first result
\* of every key; the key is the file_path, which no stored record lacks
RECURSIVE UniqueByKey(_, _)
UniqueByKey(results, seen_resources) ==
    IF results = <<>> THEN <<>>
    ELSE LET key == Head(results).metadata.file_path
         IN  IF key \notin seen_resources
             THEN <<Head(results)>>
                  \o UniqueByKey(Tail(results), seen_resources \cup {key})
             ELSE UniqueByKey(Tail(results), seen_resources)

\* formatted_resources; source stands for the title, author, url and
\* preview, all taken from the resource of that id
FormatResources(search_results) ==
    [i \in 1..Len(search_results) |->
        [number |-> i,
         source |-> search_results[i].id,
         relevance |-> search_results[i].distance,
         citation |-> <<"Source", i>>]]

\* steps 1 of generate_from_prompt: broad search, topic searches, removal
\* of duplicates, formatting
Retrieve(coll, prompt, seed, broad_up, down) ==
    LET broad == IndexSearch(coll, Encode(prompt.words), BroadLimit, broad_up)
    IN  IF broad.status = "raise"
        THEN [status |-> "raise", search_results |-> <<>>,
              formatted_resources |-> <<>>]
        ELSE LET all_results ==
                     KeywordLoop(coll, UniqueTopics(prompt.topics, seed),
                                 down, Dedup(broad.results, {}))
                 search_results == UniqueByKey(all_results, {})
             IN  [status |-> "ok", search_results |-> search_results,
                  formatted_resources |-> FormatResources(search_results)]

\* _create_content_from_resources_only
_create_content_from_resources_only(prompt, resources) ==
    [kind |-> "curated", prompt |-> prompt.words,
     sources |-> [i \in 1..Len(resources) |-> resources[i].id]]

None == [kind |-> "none"]

\* the dictionaries generate_from_prompt returns
NoResourcesResponse ==
    [error |-> "No relevant resources found in the database.",
     resources |-> <<>>, content |-> None]

CuratedResponse(prompt, search_results, formatted_resources) ==
    [content |-> _create_content_from_resources_only(prompt, search_results),
     resources |-> formatted_resources,
     num_resources_used |-> Len(search_results),
     prompt |-> prompt.words, llm_used |-> FALSE,
     note |-> "LLM disabled"]

QuotaResponse(prompt, search_results, formatted_resources) ==
    [content |-> _create_content_from_resources_only(prompt, search_results),
     resources |-> formatted_resources,
     num_resources_used |-> Len(search_results),
     prompt |-> prompt.words, llm_used |-> FALSE, quota_error |-> TRUE,
     note |-> "LLM quota exceeded"]

GeneratedResponse(prompt, search_results, formatted_resources, text) ==
    [content |-> [kind |-> "generated", text |-> text],
     resources |-> formatted_resources,
     num_resources_used |-> Len(search_results),
     prompt |-> prompt.words, llm_used |-> TRUE]

ErrorResponse(error_str, formatted_resources) ==
    [error |-> <<"Error generating content:", Take(error_str, 300)>>,
     resources |-> formatted_resources, content |-> None]

FailedResponse ==
    [error |-> "Failed to generate content after multiple attempts",
     resources |-> <<>>, content |-> None]

\* str(e) of the exceptions client.generate_content can raise
\* quota exhausted, no delay suggested
MsgQuota ==
    <<"Y", "o", "u", " ", "e", "x", "c", "e", "e", "d", "e", "d", " ", "y",
      "o", "u", "r", " ", "c", "u", "r", "r", "e", "n", "t", " ", "q", "u",
      "o", "t", "a">>

\* quota exhausted, with the delay the server suggests
MsgQuotaRetry ==
    <<"Q", "u", "o", "t", "a", " ", "e", "x", "c", "e", "e", "d", "e", "d",
      ".", " ", "P", "l", "e", "a", "s", "e", " ", "r", "e", "t", "r", "y",
      " ", "i", "n", " ", "7", "s", ".">>

\* a response blocked by the safety filter: response.text raises
MsgBlocked ==
    <<"T", "h", "e", " ", "r", "e", "s", "p", "o", "n", "s", "e", ".", "t",
      "e", "x", "t", " ", "q", "u", "i", "c", "k", " ", "a", "c", "c", "e",
      "s", "s", "o", "r", " ", "r", "e", "q", "u", "i", "r", "e", "s", " ",
      "a", " ", "v", "a", "l", "i", "d", " ", "P", "a", "r", "t">>

TxtQuota ==
    <<"q", "u", "o", "t", "a">>

Txt429 ==
    <<"4", "2", "9">>

TxtRetryIn ==
    <<"r", "e", "t", "r", "y", " ", "i", "n", " ">>

\* what one call of client.generate_content ends in
GenOutcomes ==
    {Reply("text", <<"workshop">>),
     Failure("error", MsgQuota), Failure("error", MsgQuotaRetry),
     Failure("error", Msg429), Failure("error", Msg500),
     Failure("error", MsgBlocked)}

\* "quota" in error_str.lower() or "429" in error_str
IsQuotaError(error_str) ==
    \/ Contains(Lower(error_str), TxtQuota)
    \/ Contains(error_str, Txt429)

Digits == <<"0", "1", "2", "3", "4", "5", "6", "7", "8", "9">>

IsDigit(c) == \E d \in 1..10 : Digits[d] = c

DigitValue(c) == (CHOOSE d \in 1..10 : Digits[d] = c) - 1

RECURSIVE DigitsValue(_)
DigitsValue(ds) ==
    IF ds = <<>> THEN 0
    ELSE 10 * DigitsValue(SubSeq(ds, 1, Len(ds) - 1)) + DigitValue(ds[Len(ds)])

\* re.search(r'retry in ([\d.]+)s', error_str.lower()) and float(group(1)),
\* for delays of whole seconds: found is FALSE when nothing matches
SuggestedDelay(error_str) ==
    LET t == Lower(error_str)
        matches ==
            {m \in (1..Len(t)) \X (1..Len(t)) :
                /\ m[1] + 8 + m[2] + 1 <= Len(t)
                /\ SubSeq(t, m[1], m[1] + 8) = TxtRetryIn
                /\ \A i \in (m[1] + 9)..(m[1] + 8 + m[2]) : IsDigit(t[i])
                /\ t[m[1] + 9 + m[2]] = "s"}
    IN  IF matches = {} THEN [found |-> FALSE, value |-> 0]
        ELSE LET m == CHOOSE x \in matches :
                          \A y \in matches : x[1] <= y[1]
             IN  [found |-> TRUE,
                  value |-> DigitsValue(SubSeq(t, m[1] + 9, m[1] + 8 + m[2]))]

\* the local variables of a call when the retry loop is entered
Running(prompt, search_results, formatted_resources) ==
    [pc |-> "generate", prompt |-> prompt, search_results |-> search_results,
     formatted_resources |-> formatted_resources,
     attempt |-> 0, retry_delay |-> DefaultRetryDelay,
     outcomes |-> <<>>, waits |-> <<>>]

\* what a finished call leaves in ret
Finished(status, prompt, use_llm, formatted_resources, outcomes, waits, response) ==
    [op |-> "prompt", status |-> status, prompt |-> prompt,
     use_llm |-> use_llm, formatted_resources |-> formatted_resources,
     outcomes |-> outcomes, waits |-> waits, response |-> response]

\* a retry loop that retries after every failure
AfterAttemptRetryAll(c, outcome) ==
    LET outcomes == Append(c.outcomes, outcome)
        done(response) ==
            [call |-> Idle,
             ret |-> Finished("ok", c.prompt, TRUE, c.formatted_resources,
                              outcomes, c.waits, response)]
    IN  IF outcome.kind = "text"
        THEN done(GeneratedResponse(c.prompt, c.search_results,
                                    c.formatted_resources, outcome.content))
        ELSE IF c.attempt < max_retries - 1
             THEN [call |-> [c EXCEPT !.pc = "sleep", !.outcomes = outcomes],
                   ret |-> NoRet]
             ELSE IF IsQuotaError(outcome.message)
                  THEN done(QuotaResponse(c.prompt, c.search_results,
                                          c.formatted_resources))
                  ELSE done(ErrorResponse(outcome.message,
                                          c.formatted_resources))

\* a retry loop that gives up one attempt too late
AfterAttemptOffByOne(c, outcome) ==
    LET outcomes == Append(c.outcomes, outcome)
        done(response) ==
            [call |-> Idle,
             ret |-> Finished("ok", c.prompt, TRUE, c.formatted_resources,
                              outcomes, c.waits, response)]
    IN  IF outcome.kind = "text"
        THEN done(GeneratedResponse(c.prompt, c.search_results,
                                    c.formatted_resources, outcome.content))
        ELSE IF IsQuotaError(outcome.message)
             THEN IF c.attempt < max_retries
                  THEN LET suggested == SuggestedDelay(outcome.message)
                       IN  [call |-> [c EXCEPT
                                         !.pc = "sleep",
                                         !.outcomes = outcomes,
                                         !.retry_delay =
                                             IF suggested.found
                                             THEN suggested.value + 2
                                             ELSE @],
                            ret |-> NoRet]
                  ELSE done(QuotaResponse(c.prompt, c.search_results,
                                          c.formatted_resources))
             ELSE \* "raise": the outer handler tests the same text again
                  IF IsQuotaError(outcome.message)
                  THEN done(QuotaResponse(c.prompt, c.search_results,
                                          c.formatted_resources))
                  ELSE done(ErrorResponse(outcome.message,
                                          c.formatted_resources))

\* one pass of "for attempt in range(max_retries)" up to the sleep, with
\* the handlers of the inner and of the outer try: the call's next local
\* state and, when the call returns, what it returns
AfterAttempt(c, outcome) ==
    LET outcomes == Append(c.outcomes, outcome)
        done(response) ==
            [call |-> Idle,
             ret |-> Finished("ok", c.prompt, TRUE, c.formatted_resources,
                              outcomes, c.waits, response)]
    IN  IF outcome.kind = "text"
        THEN done(GeneratedResponse(c.prompt, c.search_results,
                                    c.formatted_resources, outcome.content))
        ELSE IF IsQuotaError(outcome.message)
             THEN IF c.attempt < max_retries - 1
                  THEN LET suggested == SuggestedDelay(outcome.message)
                       IN  [call |-> [c EXCEPT
                                         !.pc = "sleep",
                                         !.outcomes = outcomes,
                                         !.retry_delay =
                                             IF suggested.found
                                             THEN suggested.value + 2
                                             ELSE @],
                            ret |-> NoRet]
                  ELSE done(QuotaResponse(c.prompt, c.search_results,
                                          c.formatted_resources))
             ELSE \* "raise": the outer handler tests the same text again
                  IF IsQuotaError(outcome.message)
                  THEN done(QuotaResponse(c.prompt, c.search_results,
                                          c.formatted_resources))
                  ELSE done(ErrorResponse(outcome.message,
                                          c.formatted_resources))

-----------------------------------------------------------------------------
(* State machine: prompt requests *)

\* generate_from_prompt is called: the searches and the formatting; the
\* call returns at once without resources or with use_llm off, raises when
\* the broad search raises, and otherwise enters the retry loop
GenerateFromPrompt ==
    /\ ret = NoRet /\ call = Idle
    /\ UNCHANGED <<dir, collection, lastBatch, server>>
    /\ \E prompt \in Prompts, use_llm \in BOOLEAN, seed \in HashSeeds,
          broad_up \in BOOLEAN :
       \E down \in SUBSET Range(prompt.topics) :
       \E g \in {Retrieve(collection, prompt, seed, broad_up, down)} :
          IF g.status = "raise"
          THEN /\ call' = Idle
               /\ ret' = Finished("raise", prompt, use_llm, <<>>, <<>>, <<>>,
                                  None)
          ELSE IF g.search_results = <<>>
          THEN /\ call' = Idle
               /\ ret' = Finished("ok", prompt, use_llm, <<>>, <<>>, <<>>,
                                  NoResourcesResponse)
          ELSE IF ~use_llm
          THEN /\ call' = Idle
               /\ ret' = Finished("ok", prompt, use_llm,
                                  g.formatted_resources, <<>>, <<>>,
                                  CuratedResponse(prompt, g.search_results,
                                                  g.formatted_resources))
          ELSE /\ call' = Running(prompt, g.search_results,
                                  g.formatted_resources)
               /\ ret' = NoRet

\* client.generate_content returns or raises
GenerateContent ==
    /\ call.pc = "generate"
    /\ UNCHANGED <<dir, collection, lastBatch, server>>
    /\ \E outcome \in GenOutcomes :
       \E after \in {AfterAttempt(call, outcome)} :
          /\ call' = after.call
          /\ ret' = after.ret

\* time.sleep(retry_delay) returns; retry_delay *= 2; continue: the next
\* pass of "for attempt in range(max_retries)" when there is one; when the
\* range is exhausted the loop ends without generated_content and the call
\* returns the response of "if 'generated_content' not in locals()"
Sleep ==
    /\ call.pc = "sleep"
    /\ UNCHANGED <<dir, collection, lastBatch, server>>
    /\ IF call.attempt + 1 < max_retries
       THEN /\ call' = [call EXCEPT !.pc = "generate",
                                    !.waits = Append(@, call.retry_delay),
                                    !.retry_delay = 2 * call.retry_delay,
                                    !.attempt = @ + 1]
            /\ ret' = ret
       ELSE /\ call' = Idle
            /\ ret' = Finished("ok", call.prompt, TRUE,
                               call.formatted_resources, call.outcomes,
                               Append(call.waits, call.retry_delay),
                               FailedResponse)

PromptNext ==
    \/ GenerateFromPrompt
    \/ GenerateContent
    \/ Sleep
    \/ Return

PromptSpec == QueryInit /\ [][PromptNext]_vars

\* an index of more records than the broad search returns: n records with
\* distinct ids and file paths, all at the prompts' embedding except the
\* last ones, whose embeddings are given by far
LargeIndex(n, far) ==
    [k \in 1..n |->
        [StoredRecord(k - 1, <<"resource", k>>) EXCEPT
            !.embedding = IF k > n - Len(far) THEN far[k - (n - Len(far))]
                                              ELSE 0]]

LargeIndexSizes == (BroadLimit - 1)..(BroadLimit + 2)
FarEmbeddings == {<<4, 2>>, <<2, 4>>, <<3, 3>>, <<4, 4>>, <<1, 3>>}

Privacy == <<"p", "r", "i", "v", "a", "c", "y">>
Topic(i) == <<"t", "o", "p", "i", i>>

\* the topics of a prompt with ten quoted phrases and one more topic
ElevenTopics == [i \in 1..TopicCap |-> Topic(i)] \o <<Bias>>

LargePrompts ==
    {Prompt(<<Eth, Ml>>, <<>>), Prompt(<<Eth, Ml>>, <<Bias>>),
     Prompt(<<Eth, Ml>>, <<Bias, Privacy>>),
     Prompt(<<Eth, Ml>>, <<Privacy, Eth>>),
     Prompt(<<Eth, Ml>>, ElevenTopics)}

LargeIndexInit ==
    /\ dir = <<>> /\ lastBatch = <<>> /\ call = Idle /\ ret = NoRet
    /\ server = ServerStart
    /\ \E n \in LargeIndexSizes, far \in FarEmbeddings :
          collection = LargeIndex(n, far)

\* generate_from_prompt(prompt, use_llm=False) in a process whose string
\* hashing is seed, with every search answered
GenerateFromPromptCurated ==
    /\ ret = NoRet /\ call = Idle
    /\ UNCHANGED <<dir, collection, lastBatch, call, server>>
    /\ \E prompt \in LargePrompts, seed \in HashSeeds :
       \E g \in {Retrieve(collection, prompt, seed, TRUE, {})} :
          ret' = Finished("ok", prompt, FALSE, g.formatted_resources,
                          <<>>, <<>>,
                          IF g.search_results = <<>>
                          THEN NoResourcesResponse
                          ELSE CuratedResponse(prompt, g.search_results,
                                               g.formatted_resources))

LargeIndexNext ==
    \/ GenerateFromPromptCurated
    \/ Return

LargeIndexSpec == LargeIndexInit /\ [][LargeIndexNext]_vars

\* a call of the service returns or raises, and a sleep ends
PromptFairSpec ==
    PromptSpec /\ WF_vars(GenerateContent) /\ WF_vars(Sleep)

-----------------------------------------------------------------------------
(* The schedule in binary floating point *)

\* duration_hours, time_per_resource and start_minutes are Python floats:
\* IEEE 754 binary64 values, every operation rounded to nearest, ties to
\* even.  A value is written here in fixed point as a sequence of limbs of
\* LimbBits bits, least significant first, with FracLimbs limbs after the
\* binary point: this holds every value that is 0 or at least
\* 2^(Precision - FracLimbs * LimbBits) and below 2^(IntLimbs * LimbBits)
\* exactly as the machine does.
Precision == 53     \* significant bits of a binary64 value
LimbBits == 15
FracLimbs == 4
IntLimbs == 1
MaxCount == 7       \* resources of the curricula scheduled

Base == 2^LimbBits
Limbs == FracLimbs + IntLimbs
Width == Limbs * LimbBits

\* the float of a natural number below Base
Fix(n) == [i \in 1..Limbs |-> IF i = FracLimbs + 1 THEN n ELSE 0]

\* binary digit k (from 1, least significant) of a value
Bit(a, k) == (a[((k - 1) \div LimbBits) + 1] \div 2^((k - 1) % LimbBits)) % 2

RECURSIVE AddFrom(_, _, _, _)
AddFrom(a, b, i, carry) ==
    IF i > Limbs THEN <<>>
    ELSE <<(a[i] + b[i] + carry) % Base>>
         \o AddFrom(a, b, i + 1, (a[i] + b[i] + carry) \div Base)

\* the exact sum of two values
AddBits(a, b) == AddFrom(a, b, 1, 0)

RECURSIVE MulFrom(_, _, _, _)
MulFrom(a, k, i, carry) ==
    IF i > Limbs THEN <<>>
    ELSE <<(a[i] * k + carry) % Base>>
         \o MulFrom(a, k, i + 1, (a[i] * k + carry) \div Base)

\* the exact product of a value and a small natural number
MulBits(a, k) == MulFrom(a, k, 1, 0)

\* long division by a small natural number, from limb i down: the quotient
\* and the remainder
RECURSIVE DivFrom(_, _, _, _)
DivFrom(a, n, i, r) ==
    IF i = 0 THEN [digits |-> <<>>, remainder |-> r]
    ELSE LET rest == DivFrom(a, n, i - 1, (r * Base + a[i]) % n)
         IN  [digits |-> Append(rest.digits, (r * Base + a[i]) \div n),
              remainder |-> rest.remainder]

\* the position of the leading binary 1, 0 for zero
Top(a) ==
    IF \A k \in 1..Width : Bit(a, k) = 0 THEN 0
    ELSE CHOOSE k \in 1..Width :
            Bit(a, k) = 1 /\ \A j \in (k + 1)..Width : Bit(a, j) = 0

\* the value with its binary digits below position lo cleared
ClearBelow(a, lo) ==
    [i \in 1..Limbs |->
        IF i * LimbBits < lo THEN 0
        ELSE IF (i - 1) * LimbBits >= lo - 1 THEN a[i]
        ELSE a[i] - (a[i] % 2^((lo - 1) % LimbBits))]

\* the value of binary digit lo alone
UnitAt(lo) ==
    [i \in 1..Limbs |->
        IF i = ((lo - 1) \div LimbBits) + 1 THEN 2^((lo - 1) % LimbBits)
                                            ELSE 0]

\* round to Precision significant bits, to nearest and ties to even; inexact
\* says that the value is a little more than its digits show
Round(a, inexact) ==
    LET lo == Top(a) - Precision + 1
    IN  IF lo <= 1 THEN a
        ELSE LET sticky == inexact \/ \E k \in 1..(lo - 2) : Bit(a, k) = 1
             IN  IF Bit(a, lo - 1) = 1 /\ (sticky \/ Bit(a, lo) = 1)
                 THEN AddBits(ClearBelow(a, lo), UnitAt(lo))
                 ELSE ClearBelow(a, lo)

\* a < b
Less(a, b) ==
    \E i \in 1..Limbs : a[i] < b[i] /\ \A j \in (i + 1)..Limbs : a[j] = b[j]

\* float(d) / n for natural numbers d and n > 0
FloatDiv(d, n) ==
    LET q == DivFrom(Fix(d), n, Limbs, 0)
    IN  Round(q.digits, q.remainder # 0)

FloatMin(a, b) == IF Less(b, a) THEN b ELSE a

\* i * p for a natural number i and a float p
FloatMul(i, p) == Round(MulBits(p, i), FALSE)

\* lines 287-297 as the interpreter computes them, for count resources and
\* a duration_hours * 60 that is a whole number of minutes
FloatSchedule(count, duration_minutes) ==
    LET time_per_resource ==
            FloatMin(FloatDiv(duration_minutes, Max(count, 1)), Fix(30))
    IN  [i \in 1..count |->
            [start_minutes |-> FloatMul(i - 1, time_per_resource),
             duration_minutes |-> time_per_resource]]

ScheduleDurations == {0, 30, 45, 60, 90, 120, 180}     \* duration_hours * 60

\* a curriculum of some number of resources is about to be scheduled
ScheduleInit ==
    /\ dir = <<>>
    /\ collection = <<>>
    /\ lastBatch = <<>>
    /\ call = Idle
    /\ server = ServerStart
    /\ \E count \in 0..MaxCount, duration_minutes \in ScheduleDurations :
          ret = [op |-> "resources", status |-> "ok", count |-> count,
                 duration_minutes |-> duration_minutes]

\* "Create a simple schedule estimate"
CreateSchedule ==
    /\ ret.op = "resources"
    /\ UNCHANGED <<dir, collection, lastBatch, call, server>>
    /\ ret' = [op |-> "schedule", status |-> "ok", count |-> ret.count,
               duration_minutes |-> ret.duration_minutes,
               schedule |-> FloatSchedule(ret.count, ret.duration_minutes)]

ScheduleNext == CreateSchedule

ScheduleSpec == ScheduleInit /\ [][ScheduleNext]_vars

-----------------------------------------------------------------------------
(* Claims *)

Quoted(token) == <<"\"">> \o token \o <<"\"">>

\* the list attribute stored as JSON text has the token as an element
HasToken(text, token) == Contains(text, Quoted(token))

HasAnyToken(text, tokens) ==
    \E i \in 1..Len(tokens) : HasToken(text, Lower(tokens[i]))

Returned(op) == ret.op = op /\ ret.status = "ok"

\* C1: the resources of a returned curriculum never hold two entries with
\* the same id.
C1_DedupLaw ==
    Returned("curriculum") =>
        \A i, j \in 1..Len(ret.resources) :
            i # j => ret.resources[i].id # ret.resources[j].id

\* a curriculum whose general search found again a resource a topic had
\* already contributed
C1_Witness ==
    /\ Returned("curriculum")
    /\ \E i \in 1..Len(ret.log), k \in 1..Len(ret.general) :
          ret.general[k].id \in Ids(ret.log[i].kept)
    /\ Len(ret.resources) >= 2

\* C2: every record search returns satisfies every supplied filter field:
\* the institution, one of the audiences, one of the tags, one of the types.
C2_FilterConjunction ==
    Returned("search") =>
        \A i \in 1..Len(ret.results) :
            LET m == ret.results[i].metadata
            IN  /\ ret.institution # <<>> =>
                      HasToken(m.institution, Lower(ret.institution))
                /\ ret.target_audience # <<>> =>
                      HasAnyToken(m.target_audience, ret.target_audience)
                /\ ret.tags # <<>> => HasAnyToken(m.tags, ret.tags)
                /\ ret.resource_type # <<>> =>
                      HasAnyToken(m.type, ret.resource_type)

\* C3: search returns at most limit results, in order of non-decreasing
\* distance.
C3_RankedAndLimited ==
    Returned("search") =>
        /\ Len(ret.results) <= ret.limit
        /\ \A i, j \in 1..Len(ret.results) :
              i < j => ret.results[i].distance <= ret.results[j].distance

\* a search that had to cut its matches down to limit and whose results
\* lie at different distances, the nearer one stored after the farther one
C3_Witness ==
    /\ Returned("search")
    /\ Len(ret.results) = ret.limit
    /\ Len(SelectSeq(collection,
                     LAMBDA r : Satisfies(r, BuildWhere(ret.institution,
                         ret.target_audience, ret.tags, ret.resource_type))))
          > ret.limit
    /\ \E i \in 1..Len(ret.results) :
          ret.results[i].distance > ret.results[1].distance
    /\ \E a, b \in 1..Len(collection) :
          /\ a < b
          /\ collection[b].id = ret.results[1].id
          /\ Distance(ret.q, collection[a].embedding) > ret.results[1].distance

\* C4: a search with limit <= 0 returns the empty list without raising, and
\* so generate_curriculum with limit_per_topic = 0 completes.
C4_NonPositiveLimitReturnsEmpty ==
    /\ (ret.op = "search" /\ ret.limit <= 0) =>
          (ret.status = "ok" /\ ret.results = <<>>)
    /\ (ret.op = "curriculum" /\ ret.limit_per_topic = 0) =>
          ret.status = "ok"

\* C5: in a returned curriculum start_minutes is strictly increasing along
\* the schedule and every duration_minutes is at most 30.
C5_ScheduleIncreasing ==
    Returned("curriculum") =>
        /\ \A i \in 1..(Len(ret.schedule) - 1) :
              ret.schedule[i].start_minutes < ret.schedule[i + 1].start_minutes
        /\ \A i \in 1..Len(ret.schedule) :
              ret.schedule[i].duration_minutes <= 30 * ret.denominator

\* the resources topic contributes to a curriculum assembled from the
\* inputs recorded in ret
Contribution(topic) ==
    TopicSearch(collection, topic, ret.institution, ret.target_audience,
                ret.preferred_types, ret.limit_per_topic)

\* C6: generate_curriculum does not fail because a topic has no results: it
\* raises only for a non-positive limit; a topic without results contributes
\* nothing while every other topic's resources are included; resources and
\* schedule are empty exactly when every search returned nothing.
C6_EmptyTopicAbsorbed ==
    ret.op = "curriculum" =>
        /\ ret.status = "raise" => ret.limit_per_topic <= 0
        /\ ret.status = "ok" =>
              /\ Len(ret.log) = Len(ret.topics)
              /\ \A i \in 1..Len(ret.topics) :
                    LET c == Contribution(ret.topics[i])
                    IN  /\ (c.first = <<>> /\ c.second = <<>>) => c.kept = <<>>
                        /\ Ids(c.kept) \subseteq Ids(ret.resources)
              /\ Len(ret.schedule) = Len(ret.resources)
              /\ (ret.resources = <<>> /\ ret.schedule = <<>>)
                    <=> /\ ret.general = <<>>
                        /\ \A i \in 1..Len(ret.log) :
                              ret.log[i].first = <<>> /\ ret.log[i].second = <<>>

\* a returned curriculum in which an earlier topic found nothing in either
\* search and a later topic contributed resources
C6_Witness ==
    /\ Returned("curriculum")
    /\ \E i, j \in 1..Len(ret.log) :
          /\ i < j
          /\ ret.log[i].retried /\ ret.log[i].second = <<>>
          /\ ret.log[j].kept # <<>>

\* C7: running the ingestion again on the same source files, on a
\* collection that holds them, leaves the number of stored records as it was.
C7_ReingestKeepsCount ==
    (ret.op = "setup" /\ ret.repeated /\ ~ret.reset) =>
        Len(get_all_resources(collection)) = ret.count_before

\* a second ingestion of a directory whose documents are all stored
C7_Witness ==
    /\ ret.op = "setup" /\ ret.repeated /\ ~ret.reset
    /\ ret.status = "ok"
    /\ Len(ret.documents) >= 2
    /\ Len(collection) >= Len(ret.documents)

\* C8: parse_directory returns one document per markdown file: no file is
\* returned twice.
C8_OneDocumentPerFile ==
    ret.op = "setup" =>
        \A i, j \in 1..Len(ret.documents) :
            i # j => ret.documents[i].file_path # ret.documents[j].file_path

\* the front matter of f is opened but is not a well-formed mapping
Malformed(f) ==
    /\ f.readable
    /\ Len(f.lines) >= 2
    /\ f.lines[1].k = "dash"
    /\ \/ YamlPatternMatch(f.lines) = 0
       \/ f.lines[2].v \notin {"map", "null"}

\* C9: a file with malformed front matter becomes a document with no
\* attributes and the whole file text as body, and the ingestion of the
\* batch it is in does not abort.
C9_MalformedDegrades ==
    ret.op = "setup" =>
        /\ ret.status = "ok"
        /\ \A i \in 1..Len(dir) :
              Malformed(dir[i]) =>
                  /\ parse_file(dir[i]).metadata = EmptyMetadata
                  /\ parse_file(dir[i]).content = dir[i].lines

\* the deterministic content for the curriculum recorded in ret
Fallback ==
    _create_basic_content([topics |-> ret.topics,
                           target_audience |-> ret.target_audience,
                           resources |-> ret.resources,
                           schedule |-> ret.schedule],
                          ret.learning_objectives)

\* the service call itself failed: no reply, an HTTP error status, or a
\* reply of unexpected shape
ServiceFailed ==
    /\ ret.op = "detailed" /\ ret.use_llm
    /\ ret.outcome.kind \in {"http_error", "timeout", "connection_error",
                             "no_choices", "no_message"}

\* the text of the service failure has 401, 403 or "unauthorized" in it
MentionsAuth(message) ==
    \E k \in 1..Len(message) :
        \/ (k + 2 <= Len(message)
              /\ message[k] = "4" /\ message[k + 1] = "0"
              /\ message[k + 2] \in {"1", "3"})
        \/ (k + 11 <= Len(message)
              /\ Lower(SubSeq(message, k, k + 11)) = TxtUnauthorized)

ParseFailed ==
    /\ ret.op = "detailed" /\ ret.use_llm
    /\ \/ ret.outcome.kind \in {"body_json_error", "body_simplejson_error"}
       \/ ret.outcome.kind = "reply" /\ ret.outcome.content = Prose

\* C11: whenever the service reply cannot be parsed as structured content,
\* at the level of the HTTP body or of the message content, the detailed
\* content is the deterministic fallback and nothing is raised.
C11_ParseFailureFallsBack ==
    ParseFailed =>
        /\ ret.status = "ok"
        /\ ret.detailed_content = Fallback

LacksRequiredField(request) ==
    \/ ~(RequiredFields \subseteq request.present)
    \/ request.institution = <<>>
    \/ request.topics = <<>>

\* C14: a curriculum request with a missing required field, in particular an
\* empty institution string or an empty topics list, ends in a validation
\* failure: no search is issued and no curriculum is assembled for it.
C14_EmptyFieldsRejected ==
    (ret.op = "request" /\ LacksRequiredField(ret.request)) =>
        /\ ret.rejected
        /\ ret.searches = 0
        /\ ret.resources = <<>> /\ ret.schedule = <<>>

\* the search generate_curriculum issues for a topic of the curriculum
\* recorded in ret, with or without the institution filter
TopicQuery(topic, institution) ==
    search(collection, Encode(<<topic>> \o ret.target_audience),
           2 * ret.limit_per_topic, institution, ret.target_audience,
           <<topic>>, ret.preferred_types).results

\* C16: for every topic of a returned curriculum the first search has the
\* institution, audience, topic-as-tag and type filters and limit
\* 2 * limit_per_topic; the second search, the same without the institution
\* filter, is issued exactly when the first returned nothing; the topic
\* contributes the first limit_per_topic results of the first search when
\* that is non-empty and of the second search otherwise.
C16_TopicSearchAndRetry ==
    Returned("curriculum") =>
        /\ Len(ret.log) = Len(ret.topics)
        /\ \A i \in 1..Len(ret.log) :
              LET t == ret.log[i]
              IN  /\ t.topic = ret.topics[i]
                  /\ t.first = TopicQuery(t.topic, ret.institution)
                  /\ Len(t.first) <= 2 * ret.limit_per_topic
                  /\ \A k \in 1..Len(t.first) :
                        /\ HasToken(t.first[k].metadata.tags, Lower(t.topic))
                        /\ ret.institution # <<>> =>
                              HasToken(t.first[k].metadata.institution,
                                       Lower(ret.institution))
                  /\ t.retried <=> (t.first = <<>>)
                  /\ t.retried => t.second = TopicQuery(t.topic, <<>>)
                  /\ t.kept = Take(IF t.first # <<>> THEN t.first
                                                     ELSE t.second,
                                   ret.limit_per_topic)

\* a curriculum for an institution in which one topic was found at the
\* first search, which returned more than the topic may contribute, and
\* another topic only by the search without the institution filter
C16_Witness ==
    /\ Returned("curriculum")
    /\ ret.institution # <<>>
    /\ \E i, j \in 1..Len(ret.log) :
          /\ ~ret.log[i].retried
          /\ Len(ret.log[i].first) > ret.limit_per_topic
          /\ Len(ret.log[i].kept) = ret.limit_per_topic
          /\ ret.log[j].retried
          /\ ret.log[j].kept # <<>>
          /\ ret.log[j].first = <<>>

\* the entries of s whose id no earlier entry of s has, in the order of s
KeepFirst(s) ==
    LET F[i \in 0..Len(s)] ==
            IF i = 0 THEN <<>>
            ELSE IF \A j \in 1..(i - 1) : s[j].id # s[i].id
                 THEN Append(F[i - 1], s[i])
                 ELSE F[i - 1]
    IN  F[Len(s)]

\* C17: the resources of an assembled curriculum are the per-topic
\* contributions in the order of topics, followed by the general-search
\* results, without every entry whose id occurred earlier in that sequence.
C17_MergeOrder ==
    Returned("curriculum") =>
        ret.resources =
            KeepFirst(Concat([i \in 1..Len(ret.topics) |->
                                Contribution(ret.topics[i]).kept])
                      \o ret.general)

\* a curriculum of two topics that both contributed, the second one a
\* resource the first had contributed already, and whose general search
\* added a resource that no topic had found
C17_Witness ==
    /\ Returned("curriculum")
    /\ Len(ret.log) = 2
    /\ ret.log[1].kept # <<>>
    /\ \E k \in 1..Len(ret.log[2].kept) :
          ret.log[2].kept[k].id \in Ids(ret.log[1].kept)
    /\ \E k \in 1..Len(ret.general) :
          /\ ret.general[k].id \notin Ids(ret.log[1].kept)
          /\ ret.general[k].id \notin Ids(ret.log[2].kept)
          /\ ret.resources[Len(ret.resources)].id = ret.general[k].id
    /\ Len(ret.resources) >= 2

\* C18: the schedule has one item per resource; every item lasts
\* p = min(duration_hours * 60 / max(count, 1), 30) and item i starts at
\* i * p; so every item starts no earlier than the previous one ends, and
\* the last item ends no later than duration_hours * 60.
C18_ScheduleLaw ==
    ret.op = "schedule" =>
        LET p == FloatMin(FloatDiv(ret.duration_minutes, Max(ret.count, 1)),
                          Fix(30))
            item(i) == ret.schedule[i]
            end(i) == AddBits(item(i).start_minutes, item(i).duration_minutes)
        IN  /\ Len(ret.schedule) = ret.count
            /\ \A i \in 1..ret.count :
                  /\ item(i).duration_minutes = p
                  /\ item(i).start_minutes = FloatMul(i - 1, p)
            /\ \A i \in 1..(ret.count - 1) :
                  ~Less(item(i + 1).start_minutes, end(i))
            /\ ret.count >= 1 =>
                  ~Less(Fix(ret.duration_minutes), end(ret.count))

\* the id add_documents gives the document at position i of the batch
\* recorded in ret
BatchId(i) == DocId(i - 1, ret.documents[i])

\* C19: the id of a source file is the same in every ingestion batch that
\* contains the file, whatever else the batch holds: the ids under which the
\* collection holds a file of the batch are ids the file gets in this batch
\* too; and no two source files get the same id: a stored record with the id
\* of a document of the batch is a record of that document's file.
C19_StableUniqueIds ==
    (ret.op = "setup" /\ ret.status = "ok") =>
        \A i \in 1..Len(ret.documents), r \in Range(collection) :
            /\ r.metadata.file_path = ret.documents[i].file_path =>
                  \E k \in 1..Len(ret.documents) :
                      /\ ret.documents[k].file_path = r.metadata.file_path
                      /\ BatchId(k) = r.id
            /\ r.id = BatchId(i) =>
                  r.metadata.file_path = ret.documents[i].file_path

LowerCaseLetters == {LowerCase[i] : i \in 1..26}

UpperOf ==
    [c \in LowerCaseLetters |->
        UpperCase[CHOOSE i \in 1..26 : LowerCase[i] = c]]

\* str.upper() of one character
UpperChar(c) == IF c \in LowerCaseLetters THEN UpperOf[c] ELSE c

Upper(t) == [i \in 1..Len(t) |-> UpperChar(t[i])]

\* ways to change the letter case of a token
CaseChanges == {"keep", "upper", "lower"}

\* a change of the source files alone, or of the filter tokens alone
SingleChanges ==
    {pair \in CaseChanges \X CaseChanges :
        (pair[1] = "keep") # (pair[2] = "keep")}

ChangeCase(change, t) ==
    CASE change = "upper" -> Upper(t)
      [] change = "lower" -> Lower(t)
      [] OTHER -> t

ChangeCaseAll(change, tokens) ==
    [i \in 1..Len(tokens) |-> ChangeCase(change, tokens[i])]

\* the source file f with the letter case of its attribute values changed
ChangeFileCase(change, f) ==
    [f EXCEPT !.attrs = [key \in FilterKeys |->
                            [f.attrs[key] EXCEPT
                                !.items = ChangeCaseAll(change, @)]]]

\* the collection built from the directory after the letter case of the
\* attribute values in its files is changed
CaseChangedCollection(change) ==
    IF change = "keep" THEN collection
    ELSE add_documents(<<>>,
             parse_directory([i \in 1..Len(dir) |->
                                 ChangeFileCase(change, dir[i])])).collection

\* the search recorded in ret, on source files and with filter tokens whose
\* letter case is changed
CaseChangedSearch(in_files, in_filters) ==
    search(CaseChangedCollection(in_files), ret.q, ret.limit,
           ChangeCase(in_filters, ret.institution),
           ChangeCaseAll(in_filters, ret.target_audience),
           ChangeCaseAll(in_filters, ret.tags),
           ChangeCaseAll(in_filters, ret.resource_type))

\* every token add_documents stored in a set-valued attribute is lowercase
StoredTokensLower ==
    \A r \in Range(collection), key \in FilterKeys :
        r.metadata[key] = Lower(r.metadata[key])

\* every token of the where clause search built is lowercase
WhereTokensLower ==
    LET where == BuildWhere(ret.institution, ret.target_audience, ret.tags,
                            ret.resource_type)
    IN  /\ \A field \in FilterKeys :
              \A i \in 1..Len(where[field]) :
                  where[field][i] = Lower(where[field][i])
        /\ \A i \in 1..Len(where.or) :
              where.or[i].token = Lower(where.or[i].token)

\* what a result says about which record matched and how well
Match(result) ==
    [id |-> result.id, metadata |-> result.metadata,
     distance |-> result.distance]

Matches(results) == [i \in 1..Len(results) |-> Match(results[i])]

\* C20 (as stated): stored tokens of the set-valued attributes are lowercase,
\* search lowercases every filter token, and the result of a search is
\* unchanged when the letter case of filter tokens or of attribute values in
\* the source files is changed.
C20_CaseInsensitive ==
    ret.op = "search" =>
        /\ StoredTokensLower
        /\ WhereTokensLower
        /\ \A pair \in SingleChanges :
              LET changed == CaseChangedSearch(pair[1], pair[2])
              IN  /\ changed.status = ret.status
                  /\ changed.results = ret.results

\* C20 (amended): stored tokens of the set-valued attributes are lowercase,
\* search lowercases the institution, target_audience, tags and resource_type
\* tokens, and which records a search returns, in which order, at which
\* distance and with which attributes is unchanged when the letter case of
\* filter tokens or of attribute values in the source files is changed.
C20_MatchingCaseInsensitive ==
    ret.op = "search" =>
        /\ StoredTokensLower
        /\ WhereTokensLower
        /\ \A pair \in SingleChanges :
              LET changed == CaseChangedSearch(pair[1], pair[2])
              IN  /\ changed.status = ret.status
                  /\ Matches(changed.results) = Matches(ret.results)

\* a search with filter tokens in mixed case returned the record of a.md,
\* whose front matter spells its institution and audience in mixed case
C20_Witness ==
    /\ ret.op = "search"
    /\ ret.institution = MitRaw
    /\ ret.target_audience = <<ElRaw, Ms>>
    /\ \E i \in 1..Len(ret.results) :
          ret.results[i].metadata.file_path = "a.md"

\* the outcome is a rate-limit or quota signal of the generation service
QuotaSignal(outcome) ==
    outcome \in {Failure("error", MsgQuota), Failure("error", MsgQuotaRetry),
                 Failure("error", Msg429)}

AllQuotaSignals(outcomes) ==
    /\ outcomes # <<>>
    /\ \A i \in 1..Len(outcomes) : QuotaSignal(outcomes[i])

C15_StructuredResponse ==
    ret.op = "prompt" =>
        /\ ret.status = "ok"
        /\ IF ret.response.content.kind = "none"
           THEN "error" \in DOMAIN ret.response
           ELSE "error" \notin DOMAIN ret.response

\* the waits and the service outcomes of the generate_from_prompt call in
\* progress or just finished
WaitsSoFar ==
    IF call.pc # "idle" THEN call.waits
    ELSE IF ret.op = "prompt" THEN ret.waits ELSE <<>>

OutcomesSoFar ==
    IF call.pc # "idle" THEN call.outcomes
    ELSE IF ret.op = "prompt" THEN ret.outcomes ELSE <<>>

\* the first wait is the default or the delay the server suggested
FirstWaitSeeded ==
    Len(WaitsSoFar) >= 1 =>
        \/ WaitsSoFar[1] = DefaultRetryDelay
        \/ /\ SuggestedDelay(OutcomesSoFar[1].message).found
           /\ WaitsSoFar[1] = SuggestedDelay(OutcomesSoFar[1].message).value

\* the wait before the third attempt is at least twice the one before the
\* second
SecondWaitDoubled ==
    Len(WaitsSoFar) >= 2 => WaitsSoFar[2] >= 2 * WaitsSoFar[1]

\* C21: the backoff between generation attempts increases exponentially:
\* the first wait is the default (5 s) or the server-suggested delay, and
\* for every sequence of rate-limit signals the wait before the third
\* attempt is at least twice the wait before the second attempt.
C21_ExponentialBackoff == FirstWaitSeeded /\ SecondWaitDoubled

\* C22: a valid structured payload wrapped in fence markers (a leading
\* ```json or ``` and/or a trailing ```, with surrounding whitespace) is
\* parsed to the same detailed content as the payload alone, and a payload
\* without fences is returned unchanged.
C22_FencesTolerated ==
    (ret.op = "content" /\ ret.reply.text \in JsonDocuments) =>
        /\ ret.status = "ok"
        /\ ret.content = LlmContent(json_loads(ret.reply.text).value)
        /\ ret.content =
               _create_detailed_content(TRUE, ReplyCurriculum, <<>>,
                   Reply("reply", ret.reply.text)).content

\* a payload between ```json and ``` with whitespace around was parsed
C22_Witness ==
    /\ ret.op = "content"
    /\ ret.reply.text = PayloadSpaced
    /\ ret.reply.lead = FenceJson /\ ret.reply.trail = Fence
    /\ ret.reply.content # FenceJson \o PayloadSpaced \o Fence
    /\ ret.content.source = "llm"

\* generation is disabled by the caller, or unavailable: no API key was
\* given and none is in the environment, or requests cannot be imported
DisabledOrUnavailable(with) ==
    \/ ~with.use_llm
    \/ ~with.requests_importable
    \/ ~with.api_key_given /\ ~with.env_key_set

\* C23: when generation is disabled or unavailable, no request is sent to
\* the external service and detailed_content is exactly the deterministic
\* synthesis from the curriculum's resources.
C23_DisabledNeverCalls ==
    (ret.op = "detailed" /\ DisabledOrUnavailable(ret.constructed_with)) =>
        /\ ~ret.called
        /\ ret.outcome = NotCalled
        /\ ret.status = "ok"
        /\ ret.detailed_content =
               _create_basic_content(
                   [topics |-> ret.topics,
                    target_audience |-> ret.target_audience,
                    resources |-> ret.resources, schedule |-> ret.schedule],
                   ret.learning_objectives)

\* generation was asked for and requests is there, but no key is: the
\* content was synthesised from the resources found
C23_Witness ==
    /\ ret.op = "detailed"
    /\ ret.constructed_with.use_llm
    /\ ret.constructed_with.requests_importable
    /\ ~ret.constructed_with.api_key_given
    /\ ~ret.constructed_with.env_key_set
    /\ ~ret.called
    /\ ret.detailed_content.source = "basic"
    /\ ret.detailed_content.activities # <<>>

\* the topics of a list that are not in down, in order
Remaining(topics, down) == SelectSeq(topics, LAMBDA t : t \notin down)

\* generate_curriculum absorbed the failing topic searches: it returned, with
\* what the searches for the remaining topics found
CurriculumAbsorbs ==
    ret.op = "curriculum_down" =>
        /\ ret.status = "ok"
        /\ \A t \in Range(Remaining(ret.topics, ret.down)) :
              \A i \in 1..Len(TopicSearch(collection, t, ret.institution,
                                          ret.target_audience, <<>>,
                                          ret.limit_per_topic).kept) :
                  \E j \in 1..Len(ret.resources) :
                      ret.resources[j].id =
                          TopicSearch(collection, t, ret.institution,
                                      ret.target_audience, <<>>,
                                      ret.limit_per_topic).kept[i].id

\* the topic expansion of generate_from_prompt absorbs failing topic
\* searches: the resources are those of the prompt without the failed topics
PromptAbsorbs ==
    \A prompt \in Prompts, seed \in HashSeeds :
        \A down \in SUBSET Range(prompt.topics) :
            LET got == Retrieve(collection, prompt, seed, TRUE, down)
                rest == Retrieve(collection,
                                 [prompt EXCEPT
                                     !.topics = Remaining(@, down)],
                                 seed, TRUE, {})
            IN  /\ got.status = "ok"
                /\ got.search_results = rest.search_results

\* C24: in the multi-topic operations (the per-topic loop of
\* generate_curriculum and the topic expansion of generate_from_prompt) a
\* failure of the search for one topic is absorbed: the operation completes
\* and returns the results found for the remaining topics.
C24_TopicFailureAbsorbed == CurriculumAbsorbs /\ PromptAbsorbs

PositionsOf(coll, file_path) ==
    {i \in 1..Len(coll) : coll[i].metadata.file_path = file_path}

\* C26: after remove_duplicates no two stored records share a non-empty
\* file_path; of each file_path the first record in listing order survives;
\* records with an empty file_path are never deleted; and running it a
\* second time deletes nothing.
C26_DuplicatesRemoved ==
    ret.op = "remove_duplicates" =>
        /\ \A i, j \in 1..Len(collection) :
              (i # j /\ collection[i].metadata.file_path # "")
                  => collection[i].metadata.file_path
                         # collection[j].metadata.file_path
        /\ \A file_path \in StoredPaths \ {""} :
              PositionsOf(ret.before, file_path) # {} =>
                  LET first == CHOOSE i \in PositionsOf(ret.before, file_path) :
                                  \A j \in PositionsOf(ret.before, file_path) :
                                      i <= j
                  IN  \E k \in 1..Len(collection) :
                          collection[k] = ret.before[first]
        /\ \A i \in PositionsOf(ret.before, "") :
              \E k \in 1..Len(collection) : collection[k] = ret.before[i]
        /\ DuplicateIds(get_all_resources(collection), {}) = <<>>

\* a run that deleted two records of one file and kept its first one and
\* a later record without a file_path
C26_Witness ==
    /\ ret.op = "remove_duplicates"
    /\ Len(ret.duplicate_ids) = 2
    /\ Len(collection) = 2
    /\ \E i \in 1..Len(ret.before) :
          /\ ret.before[i].metadata.file_path = ""
          /\ \E j \in 1..(i - 1) : ret.before[j].metadata.file_path # ""

\* a generation failure that is not a rate-limit or quota signal
OtherFailure(outcome) ==
    outcome.kind = "error" /\ ~IsQuotaError(outcome.message)

\* C27: a generation failure that is not a rate-limit or quota signal is
\* never retried: it is the last outcome of its call, no wait follows it, and
\* the response has an error field, content null and the resources formatted
\* before.
C27_OtherFailureNotRetried ==
    \A k \in 1..Len(OutcomesSoFar) :
        OtherFailure(OutcomesSoFar[k]) =>
            /\ k = Len(OutcomesSoFar)
            /\ call.pc = "idle"
            /\ ret.op = "prompt"
            /\ Len(ret.waits) = k - 1
            /\ "error" \in DOMAIN ret.response
            /\ ret.response.content = None
            /\ ret.response.resources = ret.formatted_resources

\* a call whose second attempt, after a quota signal and a wait, failed for
\* another reason
C27_Witness ==
    /\ ret.op = "prompt"
    /\ Len(ret.outcomes) = 2
    /\ QuotaSignal(ret.outcomes[1])
    /\ OtherFailure(ret.outcomes[2])
    /\ Len(ret.waits) = 1
    /\ ret.response.resources # <<>>

\* the threads that were handed a service object of a kind
Served(target) ==
    {t \in Threads : /\ server.threads[t].pc = "done"
                     /\ server.threads[t].target = target}

\* C28: under concurrent requests get_rag_system and
\* get_curriculum_generator each construct their service object at most once
\* per process, and every caller receives the same instance.
C28_SingletonPerProcess ==
    /\ server.rag_systems <= 1
    /\ server.curriculum_generators <= 1
    /\ \A target \in {"rag", "generator"} :
          \A t, u \in Served(target) :
              server.threads[t].got = server.threads[u].got

\* C29: for a fixed index content and a fixed prompt, generate_from_prompt
\* with use_llm=False returns the same resources in the same order, with the
\* same numbering and citations, on every call, also when the prompt has
\* more than 10 candidate topics: whatever order list(set(topics)) takes in
\* the process that serves the call, the resources are those returned.
C29_SameResourcesEveryCall ==
    (ret.op = "prompt" /\ ret.status = "ok" /\ ~ret.use_llm) =>
        \A seed \in HashSeeds :
            Retrieve(collection, ret.prompt, seed, TRUE, {})
                .formatted_resources = ret.formatted_resources

\* a call that entered the retry loop has returned
LoopLeft == ret.op = "prompt" /\ ret.outcomes # <<>>

\* how the retry loop was left, from what the call returned
LoopEnd ==
    LET last == ret.outcomes[Len(ret.outcomes)]
    IN  IF last.kind = "text" THEN "content assigned"
        ELSE IF IsQuotaError(last.message) THEN "fallback"
        ELSE "raised"

\* C30: the response "Failed to generate content after multiple attempts"
\* of generate_from_prompt is never returned: whatever the service answers,
\* the retry loop ends with generated content assigned, with a return of
\* the fallback response, or with an exception that the outer handler
\* turns into the error response.
C30_FailedUnreachable ==
    LoopLeft =>
        /\ ret.response # FailedResponse
        /\ LoopEnd = "content assigned" =>
              /\ ret.response.llm_used
              /\ ret.response.content.kind = "generated"
        /\ LoopEnd = "fallback" =>
              /\ "quota_error" \in DOMAIN ret.response
              /\ ret.response.content.kind = "curated"
        /\ LoopEnd = "raised" =>
              ret.response =
                  ErrorResponse(ret.outcomes[Len(ret.outcomes)].message,
                                ret.formatted_resources)

\* a call whose three attempts all met the quota signal: the loop was left
\* on its last pass by the return of the fallback response
C30_Witness ==
    /\ LoopLeft
    /\ Len(ret.outcomes) = max_retries
    /\ LoopEnd = "fallback"
    /\ Len(ret.waits) = max_retries - 1
    /\ ret.response # FailedResponse

====
